---------------------------- MODULE Spec2Model ----------------------------
(***************************************************************************)
(* git-reviewer: the contribution counting of ContributionCounter          *)
(* (src/main.go, package gitreviewers), its bounded top-N selection, and   *)
(* the channel-merging shell variant (src/src/reviewers.go) with its       *)
(* committerCounts (src/unnamed/part_008), and the since flag of the       *)
(* command line (src/unnamed/part_007).                                    *)
(*                                                                         *)
(* Strings that are only compared for equality (emails, error kinds) are   *)
(* TLA+ strings.  Dates are compared with Go's string order, so they are   *)
(* sequences of digits compared lexicographically.  A float64 is the exact *)
(* fraction [num, den]; den = 0 with num > 0 is +Inf, 0/0 is NaN.          *)
(***************************************************************************)
EXTENDS Integers, Sequences, FiniteSets, TLC

(***************************************************************************)
(* Bounds of the model.                                                    *)
(***************************************************************************)
NumPaths == 2
MaxStats == 4
MaxN == 4
MaxScore == 2
MaxTime == 2
MaxChanges == 2
MaxLines == 2
MaxSources == 2
MaxGroups == 2
MaxEntries == 3
MaxChans == 2
MaxVals == 2

(***************************************************************************)
(* Program constants.                                                      *)
(***************************************************************************)
\* totalLines is a uint16: arithmetic is modulo 2^16.
UInt16Mod == 65536
\* FindReviewers reports at most 3 reviewers.
MaxReviewers == 3

VARIABLES
    variant,          \* which FindReviewers runs: "blame", "shell" or "topn"
    Since,            \* r.Since
    Mailmap,          \* r.Mailmap
    mainPc,           \* position of the call FindReviewers -> generateCounts
    rgErr,            \* rg.err of generateCounts
    rgMsg,            \* rg.msg of generateCounts
    wg,               \* the WaitGroup counter
    reporterClosed,   \* close(reporter) has run
    pathPc,           \* position of each per-path goroutine
    blame,            \* what git blame returned for each path, once it ran
    consumerPc,       \* position of the collecting goroutine
    batch,            \* attributions received and not yet folded in
    linesByCommitter, \* the map of generateCounts / FindReviewers
    totalLines,       \* the uint16 total of generateCounts
    final,            \* Stats built by FindReviewers
    result,           \* what FindReviewers returned
    tnN, tnS, tnIdx, top, tnPc,  \* one call chooseTopN(tnN, tnS)
    shMain,           \* position of the shell variant of FindReviewers
    shI,              \* its loop counter i
    merged,           \* its map of merged commit counts
    shClosed,         \* close(statCh) and close(opCh) have run
    shPc,             \* position of each committerCounts goroutine
    shOut,            \* the Stats a committerCounts has still to send
    shErr,            \* signal.err of each committerCounts
    call,             \* a call of one of the other functions: its arguments
    ret               \* what that call returned

vars == <<variant, Since, Mailmap, mainPc, rgErr, rgMsg, wg, reporterClosed,
          pathPc, blame, consumerPc, batch, linesByCommitter, totalLines,
          final, result, tnN, tnS, tnIdx, top, tnPc,
          shMain, shI, merged, shClosed, shPc, shOut, shErr, call, ret>>

blameVars == <<Since, Mailmap, mainPc, rgErr, rgMsg, wg, reporterClosed,
               pathPc, blame, consumerPc, batch, linesByCommitter,
               totalLines, final, result>>

\* blameVars without the mailmap
blameRestVars == <<Since, mainPc, rgErr, rgMsg, wg, reporterClosed,
                   pathPc, blame, consumerPc, batch, linesByCommitter,
                   totalLines, final, result>>

topnVars == <<tnN, tnS, tnIdx, top, tnPc>>

shellVars == <<shMain, shI, merged, shClosed, shPc, shOut, shErr>>

callVars == <<call, ret>>

Paths == 1..NumPaths

(***************************************************************************)
(* float64 as exact fractions.                                             *)
(***************************************************************************)
Float(n) == [num |-> n, den |-> 1]

IsNaN(x) == x.den = 0 /\ x.num = 0

\* a < b on float64
FLess(a, b) ==
    IF IsNaN(a) \/ IsNaN(b) THEN FALSE
    ELSE IF a.den = 0 THEN FALSE
    ELSE IF b.den = 0 THEN TRUE
    ELSE IF a.den = b.den THEN a.num < b.num
    ELSE a.num * b.den < b.num * a.den

\* a / float64(t)
FDiv(a, t) == [num |-> a.num, den |-> a.den * t]

(***************************************************************************)
(* Stats as a heap (container/heap over Stats.Len/Less/Swap/Push/Pop).     *)
(* Sequences are 1-based; At(s, i) is the Go element s[i].                 *)
(***************************************************************************)
At(s, i) == s[i + 1]

Less(s, i, j) == FLess(At(s, i).Percentage, At(s, j).Percentage)

Swap(s, i, j) == [s EXCEPT ![i + 1] = s[j + 1], ![j + 1] = s[i + 1]]

\* Go's (j - 1) / 2 truncates toward zero
Parent(j) == IF j = 0 THEN 0 ELSE (j - 1) \div 2

RECURSIVE up(_, _)
up(h, j) ==
    LET i == Parent(j) IN
    IF i = j \/ ~Less(h, j, i) THEN h
    ELSE up(Swap(h, i, j), i)

RECURSIVE down(_, _, _)
down(h, i, n) ==
    LET j1 == 2 * i + 1 IN
    IF j1 >= n THEN h
    ELSE LET j2 == j1 + 1
             j  == IF j2 < n /\ Less(h, j2, j1) THEN j2 ELSE j1
         IN IF ~Less(h, j, i) THEN h
            ELSE down(Swap(h, i, j), j, n)

\* heap.Push(&top, stat)
HeapPush(h, stat) == up(Append(h, stat), Len(h))

\* a removal of the first element that does not restore the heap order
HeapPopFront(h) == Tail(h)

\* heap.Pop(&top): the heap that is left
HeapPop(h) ==
    LET n == Len(h) - 1 IN
    SubSeq(down(Swap(h, 0, n), 0, n), 1, n)

(***************************************************************************)
(* chooseTopN                                                              *)
(***************************************************************************)
\* the loop body indexes top[0] of an empty heap: index out of range
TopNPanics(n, h) == ~(Len(h) < n) /\ Len(h) = 0

\* a bounded selection that keeps the first n and never evicts
TopNStepNoEvict(n, h, stat) ==
    IF Len(h) < n THEN HeapPush(h, stat) ELSE h

\* one iteration of the loop of chooseTopN, when it does not panic
TopNStep(n, h, stat) ==
    IF Len(h) < n \/ FLess(At(h, 0).Percentage, stat.Percentage)
    THEN HeapPush(IF Len(h) = n THEN HeapPop(h) ELSE h, stat)
    ELSE h

RECURSIVE TopNLoop(_, _, _, _)
TopNLoop(n, s, i, h) ==
    IF i > Len(s) THEN h
    ELSE TopNLoop(n, s, i + 1, TopNStep(n, h, s[i]))

\* sort.Sort(sort.Reverse(top)): Reverse's Less(i, j) is top.Less(j, i).
\* For the short slices chooseTopN sorts, sort.Sort is an insertion sort.
RECURSIVE InsertDown(_, _)
InsertDown(s, j) ==
    IF j > 0 /\ Less(s, j - 1, j)
    THEN InsertDown(Swap(s, j, j - 1), j - 1)
    ELSE s

RECURSIVE InsertionSort(_, _)
InsertionSort(s, i) ==
    IF i >= Len(s) THEN s ELSE InsertionSort(InsertDown(s, i), i + 1)

SortReverse(s) == InsertionSort(s, 1)

\* a selection that takes the first n Stats of s as they come
ChooseFirstN(n, s) == SubSeq(s, 1, n)

\* chooseTopN(n, s) for a call that does not panic
ChooseTopN(n, s) == SortReverse(TopNLoop(n, s, 1, <<>>))

(***************************************************************************)
(* One call of chooseTopN, iteration by iteration.                         *)
(***************************************************************************)
ScoreValues == {[num |-> k, den |-> MaxScore] : k \in 0..MaxScore}

ScoreLists == UNION {[1..l -> ScoreValues] : l \in 0..MaxStats}

\* the Stats list with the given scores; the Reviewer is the input position
StatList(scores) ==
    [i \in 1..Len(scores) |-> [Reviewer |-> i, Percentage |-> scores[i]]]

CallIdle == call = [fn |-> "none"] /\ ret = [kind |-> "none"]

TopNIdle ==
    /\ tnN = 0 /\ tnS = <<>> /\ tnIdx = 0 /\ top = <<>> /\ tnPc = "off"

ShellIdle ==
    /\ shMain = "off" /\ shI = 0 /\ merged = <<>> /\ shClosed = FALSE
    /\ shPc = [p \in Paths |-> "off"]
    /\ shOut = [p \in Paths |-> <<>>]
    /\ shErr = [p \in Paths |-> FALSE]

BlameIdle ==
    /\ Since = <<>> /\ Mailmap = <<>> /\ mainPc = "off"
    /\ rgErr = "nil" /\ rgMsg = "" /\ wg = 0 /\ reporterClosed = FALSE
    /\ pathPc = [p \in Paths |-> "off"]
    /\ blame = [p \in Paths |-> [kind |-> "none"]]
    /\ consumerPc = "off" /\ batch = <<>>
    /\ linesByCommitter = <<>> /\ totalLines = 0
    /\ final = <<>> /\ result = [kind |-> "none"]

InitTopN ==
    /\ variant = "topn"
    /\ BlameIdle
    /\ ShellIdle
    /\ CallIdle
    /\ tnN \in 0..MaxN
    /\ \E sc \in ScoreLists : tnS = StatList(sc)
    /\ tnIdx = 0
    /\ top = <<>>
    /\ tnPc = "loop"

TopNIter ==
    /\ tnPc = "loop"
    /\ tnIdx < Len(tnS)
    /\ ~TopNPanics(tnN, top)
    /\ top' = TopNStep(tnN, top, tnS[tnIdx + 1])
    /\ tnIdx' = tnIdx + 1
    /\ UNCHANGED <<callVars, variant, blameVars, shellVars, tnN, tnS, tnPc>>

TopNPanic ==
    /\ tnPc = "loop"
    /\ tnIdx < Len(tnS)
    /\ TopNPanics(tnN, top)
    /\ tnPc' = "panic"
    /\ UNCHANGED <<callVars,
                   variant, blameVars, shellVars, tnN, tnS, tnIdx, top>>

TopNSort ==
    /\ tnPc = "loop"
    /\ tnIdx = Len(tnS)
    /\ top' = SortReverse(top)
    /\ tnPc' = "done"
    /\ UNCHANGED <<callVars, variant, blameVars, shellVars, tnN, tnS, tnIdx>>

NextTopN == TopNIter \/ TopNPanic \/ TopNSort

SpecTopN == InitTopN /\ [][NextTopN]_vars

(***************************************************************************)
(* Properties of chooseTopN.                                               *)
(***************************************************************************)
Min(a, b) == IF a < b THEN a ELSE b

Scores(s) == [i \in 1..Len(s) |-> s[i].Percentage]

RemoveAt(s, i) == SubSeq(s, 1, i - 1) \o SubSeq(s, i + 1, Len(s))

\* the scores fully sorted in descending order (the order the shell variant
\* of FindReviewers gives its list before it truncates it)
RECURSIVE SortedDesc(_)
SortedDesc(sc) ==
    IF sc = <<>> THEN <<>>
    ELSE LET m == CHOOSE i \in 1..Len(sc) :
                      \A j \in 1..Len(sc) : ~FLess(sc[i], sc[j])
         IN <<sc[m]>> \o SortedDesc(RemoveAt(sc, m))

\* C5: for n >= 1, chooseTopN(n, s) returns min(n, len(s)) entries whose
\* scores are the first n scores of s sorted in descending order.
C5_TopNIsSortedPrefix ==
    (tnPc = "done" /\ tnN >= 1) =>
        Scores(top) = SubSeq(SortedDesc(Scores(tnS)), 1, Min(tnN, Len(tnS)))

\* a call with more entries than n in which the entry inserted first was
\* evicted again
C5_Witness ==
    /\ tnPc = "done"
    /\ tnN >= 1
    /\ Len(tnS) > tnN
    /\ \A i \in 1..Len(top) : top[i].Reviewer # 1

(***************************************************************************)
(* ContributionCounter.FindReviewers, generateCounts and runAndReport.     *)
(***************************************************************************)
\* Go's < on strings: bytewise lexicographic order
RECURSIVE StrLess(_, _)
StrLess(s, t) ==
    IF t = <<>> THEN FALSE
    ELSE IF s = <<>> THEN TRUE
    ELSE IF Head(s) < Head(t) THEN TRUE
    ELSE IF Head(s) > Head(t) THEN FALSE
    ELSE StrLess(Tail(s), Tail(t))

\* the bytes of a date formatted as "2006-01-02"
Date(y, m, d) ==
    <<48 + (y \div 1000), 48 + ((y \div 100) % 10), 48 + ((y \div 10) % 10),
      48 + (y % 10), 45, 48 + (m \div 10), 48 + (m % 10), 45,
      48 + (d \div 10), 48 + (d % 10)>>

\* time.Now().AddDate(0, -6, 0).Format("2006-01-02") of the modelled run
SixMonthsAgo == Date(2017, 5, 10)

\* a mailmap lookup that ignores the mailmap
reviewerKeyRaw(email, mm) == email

\* resolve an author email to its canonical in the mailmap
reviewerKey(email, mm) == IF email \in DOMAIN mm THEN mm[email] ELSE email

\* a date test that also skips the lines dated on the Since date
BeforeOrOnSince(since, date) == ~StrLess(since, date)

\* the date test of runAndReport: the line is skipped
BeforeSince(since, date) == StrLess(date, since)

\* the attributions runAndReport collects from the parsed blame lines.  A run
\* of n consecutive lines of one commit is one element [author, n].
RECURSIVE Attributions(_, _, _)
Attributions(lines, since, mm) ==
    IF lines = <<>> THEN <<>>
    ELSE LET l == Head(lines)
             rest == Attributions(Tail(lines), since, mm)
         IN IF BeforeSince(since, l.date) THEN rest
            ELSE <<[author |-> reviewerKey(l.email, mm), n |-> l.n]>> \o rest

\* linesByCommitter[author]++, n times
MapAdd(m, a, n) ==
    [k \in DOMAIN m \cup {a} |->
        IF k = a
        THEN Float((IF a \in DOMAIN m THEN m[a].num ELSE 0) + n)
        ELSE m[k]]

\* totalLines++, n times, on a uint16
TotalAdd(t, n) == (t + n) % UInt16Mod

\* errors a per-path goroutine stores on the run guard
GoroutineErrs == {"blameCmd", "blameParse", "scan"}

\* what a read of rg.err that races with the goroutines' writes can observe
RacyReads == IF rgErr \in GoroutineErrs THEN {"nil", rgErr} ELSE {rgErr}

InitBlame(sinceArgs, mailmaps) ==
    /\ variant = "blame"
    /\ TopNIdle
    /\ ShellIdle
    /\ CallIdle
    /\ Since \in sinceArgs
    /\ Mailmap \in mailmaps
    /\ mainPc = "start"
    /\ rgErr = "nil" /\ rgMsg = "" /\ wg = 0 /\ reporterClosed = FALSE
    /\ pathPc = [p \in Paths |-> "off"]
    /\ blame = [p \in Paths |-> [kind |-> "none"]]
    /\ consumerPc = "off" /\ batch = <<>>
    /\ linesByCommitter = <<>> /\ totalLines = 0
    /\ final = <<>> /\ result = [kind |-> "none"]

\* FindReviewers up to the call of generateCounts, and generateCounts up to
\* maybeRunMany: the default Since, wg.Add(len(paths)), make(chan []string)
Enter ==
    /\ mainPc = "start"
    /\ Since' = IF Len(Since) = 0 THEN SixMonthsAgo ELSE Since
    /\ wg' = NumPaths
    /\ mainPc' = "master"
    /\ UNCHANGED <<callVars,
                   variant, Mailmap, rgErr, rgMsg, reporterClosed, pathPc,
                   blame, consumerPc, batch, linesByCommitter, totalLines,
                   final, result, topnVars, shellVars>>

\* a sequence of operations that runs on after an operation stored an error
runAllNext(err, next) == next

\* maybeRunMany: where the sequence goes on after an operation that left err
\* on the run guard; on an error it breaks out to the check of rg.err
maybeRunManyNext(err, next) == IF err = "nil" THEN next ELSE "check"

\* m, rg.err = r.Repo.Reference(plumbing.Master, true)
ResolveMaster ==
    /\ mainPc = "master"
    /\ \E ok \in BOOLEAN :
          /\ rgErr' = IF ok THEN "nil" ELSE "masterRef"
          /\ mainPc' = maybeRunManyNext(rgErr', "commit")
    /\ rgMsg' = "unable to find ref for master"
    /\ UNCHANGED <<callVars,
                   variant, Since, Mailmap, wg, reporterClosed, pathPc, blame,
                   consumerPc, batch, linesByCommitter, totalLines, final,
                   result, topnVars, shellVars>>

\* mc, rg.err = r.Repo.CommitObject(m.Hash())
ResolveCommit ==
    /\ mainPc = "commit"
    /\ \E ok \in BOOLEAN :
          /\ rgErr' = IF ok THEN "nil" ELSE "masterCommit"
          /\ mainPc' = maybeRunManyNext(rgErr', "spawn")
    /\ rgMsg' = "unable to find commit for master"
    /\ UNCHANGED <<callVars,
                   variant, Since, Mailmap, wg, reporterClosed, pathPc, blame,
                   consumerPc, batch, linesByCommitter, totalLines, final,
                   result, topnVars, shellVars>>

\* for _, p := range paths { go func(p string) {...}(p) }
Spawn ==
    /\ mainPc = "spawn"
    /\ pathPc' = [p \in Paths |-> "spawned"]
    /\ mainPc' = "check"
    /\ UNCHANGED <<callVars,
                   variant, Since, Mailmap, rgErr, rgMsg, wg, reporterClosed,
                   blame, consumerPc, batch, linesByCommitter, totalLines,
                   final, result, topnVars, shellVars>>

\* if rg.err != nil { return nil, 0, rg.err }, and FindReviewers returns it
BailEarly ==
    /\ mainPc = "check"
    /\ \E e \in RacyReads :
          /\ e # "nil"
          /\ result' = [kind |-> "error", err |-> e]
    /\ mainPc' = "done"
    /\ UNCHANGED <<callVars,
                   variant, Since, Mailmap, rgErr, rgMsg, wg, reporterClosed,
                   pathPc, blame, consumerPc, batch, linesByCommitter,
                   totalLines, final, topnVars, shellVars>>

\* rg.err read as nil: start the collecting goroutine and go on to wg.Wait()
StartCollector ==
    /\ mainPc = "check"
    /\ "nil" \in RacyReads
    /\ consumerPc' = "recv"
    /\ mainPc' = "wait"
    /\ UNCHANGED <<callVars,
                   variant, Since, Mailmap, rgErr, rgMsg, wg, reporterClosed,
                   pathPc, blame, batch, linesByCommitter, totalLines, final,
                   result, topnVars, shellVars>>

\* the goroutine of path p starts: rg.err read as nil, go on to runAndReport
PathStart(p) ==
    /\ pathPc[p] = "spawned"
    /\ "nil" \in RacyReads
    /\ pathPc' = [pathPc EXCEPT ![p] = "running"]
    /\ UNCHANGED <<callVars, variant, Since, Mailmap, mainPc, rgErr, rgMsg, wg,
                   reporterClosed, blame, consumerPc, batch, linesByCommitter,
                   totalLines, final, result, topnVars, shellVars>>

\* the goroutine of path p starts and reads an error another one stored:
\* it sets rg.msg and returns
PathSkip(p) ==
    /\ pathPc[p] = "spawned"
    /\ \E e \in RacyReads : e # "nil"
    /\ rgMsg' = "Issue running git blame for p"
    /\ pathPc' = [pathPc EXCEPT ![p] = "skipped"]
    /\ UNCHANGED <<callVars,
                   variant, Since, Mailmap, mainPc, rgErr, wg, reporterClosed,
                   blame, consumerPc, batch, linesByCommitter, totalLines,
                   final, result, topnVars, shellVars>>

\* runAndReport returns an error before it sends: git blame failed, or
\* parseBlameLine returned an error; the goroutine stores it on rg.err
PathBlameFail(p) ==
    /\ pathPc[p] = "running"
    /\ \E k \in {"cmdFail", "parseFail"} :
          /\ blame' = [blame EXCEPT ![p] = [kind |-> k, lines |-> <<>>]]
          /\ rgErr' = IF k = "cmdFail" THEN "blameCmd" ELSE "blameParse"
    /\ pathPc' = [pathPc EXCEPT ![p] = "failed"]
    /\ UNCHANGED <<callVars,
                   variant, Since, Mailmap, mainPc, rgMsg, wg, reporterClosed,
                   consumerPc, batch, linesByCommitter, totalLines, final,
                   result, topnVars, shellVars>>

\* git blame ran and every line parsed (kind "ok"), or the scanner stopped
\* with an error after the lines it delivered (kind "scanErr"):
\* runAndReport reaches reporter <- attributions
PathBlameOk(p, outputs) ==
    /\ pathPc[p] = "running"
    /\ \E k \in {"ok", "scanErr"}, ls \in outputs :
          blame' = [blame EXCEPT ![p] = [kind |-> k, lines |-> ls]]
    /\ pathPc' = [pathPc EXCEPT ![p] = "sending"]
    /\ UNCHANGED <<callVars, variant, Since, Mailmap, mainPc, rgErr, rgMsg, wg,
                   reporterClosed, consumerPc, batch, linesByCommitter,
                   totalLines, final, result, topnVars, shellVars>>

\* reporter <- attributions meets the collector's receive (the channel is
\* unbuffered); a runAndReport with a nil scn.Err() then returns nil
SendRecv(p) ==
    /\ pathPc[p] = "sending"
    /\ consumerPc = "recv"
    /\ ~reporterClosed
    /\ batch' = Attributions(blame[p].lines, Since, Mailmap)
    /\ consumerPc' = "fold"
    /\ pathPc' = [pathPc EXCEPT
                    ![p] = IF blame[p].kind = "ok" THEN "returned" ELSE "sent"]
    /\ UNCHANGED <<callVars, variant, Since, Mailmap, mainPc, rgErr, rgMsg, wg,
                   reporterClosed, blame, linesByCommitter, totalLines, final,
                   result, topnVars, shellVars>>

\* runAndReport returns a non-nil scn.Err() after the send: rg.err = err
PathReturnErr(p) ==
    /\ pathPc[p] = "sent"
    /\ rgErr' = "scan"
    /\ pathPc' = [pathPc EXCEPT ![p] = "returned"]
    /\ UNCHANGED <<callVars,
                   variant, Since, Mailmap, mainPc, rgMsg, wg, reporterClosed,
                   blame, consumerPc, batch, linesByCommitter, totalLines,
                   final, result, topnVars, shellVars>>

\* the collector folds one attribution in
Fold ==
    /\ consumerPc = "fold"
    /\ batch # <<>>
    /\ linesByCommitter' =
          MapAdd(linesByCommitter, Head(batch).author, Head(batch).n)
    /\ totalLines' = TotalAdd(totalLines, Head(batch).n)
    /\ batch' = Tail(batch)
    /\ UNCHANGED <<callVars, variant, Since, Mailmap, mainPc, rgErr, rgMsg, wg,
                   reporterClosed, pathPc, blame, consumerPc, final, result,
                   topnVars, shellVars>>

\* a collector that signals wg.Done() as soon as it has received
InnerLoopSkipped == TRUE

\* the inner loop over the received attributions has ended
InnerLoopEnded == batch = <<>>

\* the batch is folded in: wg.Done(), and back to the receive
BatchDone ==
    /\ consumerPc = "fold"
    /\ InnerLoopEnded
    /\ wg' = wg - 1
    /\ consumerPc' = "recv"
    /\ UNCHANGED <<callVars, variant, Since, Mailmap, mainPc, rgErr, rgMsg,
                   reporterClosed, pathPc, blame, batch, linesByCommitter,
                   totalLines, final, result, topnVars, shellVars>>

\* a wait that returns as soon as every goroutine has come to its send
WaitReturnsEarly == \A p \in Paths : pathPc[p] \notin {"spawned", "running"}

\* wg.Wait() returns
WaitReturns == wg = 0

\* wg.Wait() returned: close(reporter), which ends the collector's range
\* loop, and generateCounts returns linesByCommitter, totalLines, nil
CloseAndReturn ==
    /\ mainPc = "wait"
    /\ WaitReturns
    /\ reporterClosed' = TRUE
    /\ consumerPc' = IF consumerPc = "recv" THEN "exited" ELSE consumerPc
    /\ mainPc' = "normalize"
    /\ UNCHANGED <<callVars,
                   variant, Since, Mailmap, rgErr, rgMsg, wg, pathPc, blame,
                   batch, linesByCommitter, totalLines, final, result,
                   topnVars, shellVars>>

\* the orders in which a range over the map can visit its keys
KeyOrders(m) ==
    {o \in [1..Cardinality(DOMAIN m) -> DOMAIN m] :
        \A i, j \in DOMAIN o : i # j => o[i] # o[j]}

\* linesByCommitter[author] = lines / float64(totalLines) for every author,
\* then final[idx] = &Stat{c, p} in the order of the range over the map
Normalize ==
    /\ mainPc = "normalize"
    /\ linesByCommitter' =
          [a \in DOMAIN linesByCommitter |->
              FDiv(linesByCommitter[a], totalLines)]
    /\ \E o \in KeyOrders(linesByCommitter) :
          final' = [i \in DOMAIN o |->
                       [Reviewer |-> o[i],
                        Percentage |-> linesByCommitter'[o[i]]]]
    /\ mainPc' = "select"
    /\ UNCHANGED <<callVars,
                   variant, Since, Mailmap, rgErr, rgMsg, wg, reporterClosed,
                   pathPc, blame, consumerPc, batch, totalLines, result,
                   topnVars, shellVars>>

\* what FindReviewers returns for the selection topN, with no check for
\* an empty selection
ReturnedUnchecked(topN) == [kind |-> "ok", reviewers |-> topN]

\* what FindReviewers returns for the selection topN
Returned(topN) ==
    IF Len(topN) = 0
    THEN [kind |-> "error", err |-> "noReviewers"]
    ELSE [kind |-> "ok", reviewers |-> topN]

\* topN := chooseTopN(maxStats, final); no entry: noReviewersErr{}
Select ==
    /\ mainPc = "select"
    /\ LET maxStats == IF Len(final) < MaxReviewers THEN Len(final)
                       ELSE MaxReviewers
           topN == ChooseTopN(maxStats, final)
       IN result' = Returned(topN)
    /\ mainPc' = "done"
    /\ UNCHANGED <<callVars,
                   variant, Since, Mailmap, rgErr, rgMsg, wg, reporterClosed,
                   pathPc, blame, consumerPc, batch, linesByCommitter,
                   totalLines, final, topnVars, shellVars>>

(***************************************************************************)
(* The blame outputs the runs draw from.                                   *)
(***************************************************************************)
\* blame outputs of at most two runs of lines over the given runs
OutputsOver(hunks) ==
    {<<>>} \cup {<<h>> : h \in hunks} \cup {<<g, h>> : g, h \in hunks}

Hunk(e, d, k) == [email |-> e, date |-> d, n |-> k]

NewDate == Date(2017, 5, 10)

LateSince == Date(2017, 5, 11)

AliasMap == [k \in {"b@old.com"} |-> "b@new.com"]

SmallOutputs ==
    OutputsOver({Hunk("a@x.com", NewDate, 1), Hunk("b@old.com", NewDate, 1)})

PathStep(p, outputs) ==
    \/ PathStart(p)
    \/ PathSkip(p)
    \/ PathBlameFail(p)
    \/ PathBlameOk(p, outputs)
    \/ SendRecv(p)
    \/ PathReturnErr(p)

NextOver(outputs) ==
    \/ Enter
    \/ ResolveMaster
    \/ ResolveCommit
    \/ Spawn
    \/ BailEarly
    \/ StartCollector
    \/ \E p \in Paths : PathStep(p, outputs)
    \/ Fold
    \/ BatchDone
    \/ CloseAndReturn
    \/ Normalize
    \/ Select

\* files with a run of 65535 lines of one commit
BigOutputs ==
    OutputsOver({Hunk("a@x.com", NewDate, 1),
                 Hunk("b@old.com", NewDate, UInt16Mod - 1)})

\* files whose lines carry the old and the new email of one contributor
AliasOutputs ==
    OutputsOver({Hunk("b@old.com", NewDate, 4), Hunk("b@new.com", NewDate, 6)})

Init == InitBlame({<<>>, LateSince}, {<<>>, AliasMap})

Next == NextOver(SmallOutputs)

Spec == Init /\ [][Next]_vars

InitBig == InitBlame({<<>>}, {<<>>})

NextBig == NextOver(BigOutputs)

SpecBig == InitBig /\ [][NextBig]_vars

InitAlias == InitBlame({<<>>}, {<<>>, AliasMap})

NextAlias == NextOver(AliasOutputs)

SpecAlias == InitAlias /\ [][NextAlias]_vars

(***************************************************************************)
(* The shell variant: Reviewer.FindReviewers merging the channels of one   *)
(* committerCounts goroutine per path.                                     *)
(***************************************************************************)
\* A line of the output of git shortlog -sne, as countExtractor
\* ((\d+)\s*(.*)$) sees it: the digits of its first run of digits (none if
\* the line holds no digit) and the text after them and the white space.
ShortlogLine(ct, who) == [count |-> ct, rest |-> who]

\* the empty string strings.Split(out, "\n") yields after the last newline,
\* and for an empty output
BlankLine == ShortlogLine(<<>>, "")

\* "     1\ta" and "     2\tb"
ShellLines == {ShortlogLine(<<49>>, "a"), ShortlogLine(<<50>>, "b")}

\* strings.Split(out, "\n") for outputs of no, one and two commit counts
ShellOutputs ==
    {<<BlankLine>>}
    \cup {<<s, BlankLine>> : s \in ShellLines}
    \cup {<<s, u, BlankLine>> : s, u \in ShellLines}

\* strconv.Atoi on a run of digits
RECURSIVE Atoi(_)
Atoi(d) ==
    IF d = <<>> THEN 0
    ELSE 10 * Atoi(SubSeq(d, 1, Len(d) - 1)) + (d[Len(d)] - 48)

\* strconv.Atoi fails: the number does not fit an int
AtoiFails(d) == Len(d) > 19

\* a loop that sends a Stat for every line
SkippedNever(line) == FALSE

\* the loop over the lines goes on to the next line without a send:
\* len(matches) < 3, or Atoi returned an error
Skipped(line) == line.count = <<>> \/ AtoiFails(line.count)

\* Stat{rvwr, cti}
ParseStat(line) == [Reviewer |-> line.rest, Count |-> Atoi(line.count)]

\* an assignment in place of the addition
MergeSet(m, stat) ==
    [k \in DOMAIN m \cup {stat.Reviewer} |->
        IF k = stat.Reviewer THEN stat.Count ELSE m[k]]

\* merged[stat.Reviewer] += stat.Count
MergeAdd(m, stat) ==
    [k \in DOMAIN m \cup {stat.Reviewer} |->
        IF k = stat.Reviewer
        THEN (IF k \in DOMAIN m THEN m[k] ELSE 0) + stat.Count
        ELSE m[k]]

InitShell ==
    /\ variant = "shell"
    /\ BlameIdle
    /\ TopNIdle
    /\ CallIdle
    /\ shMain = "loop" /\ shI = 0 /\ merged = <<>> /\ shClosed = FALSE
    /\ shPc = [p \in Paths |-> "log"]
    /\ shOut = [p \in Paths |-> <<>>]
    /\ shErr = [p \in Paths |-> FALSE]

\* committerCounts runs git log for the first commit since the date
ShLog(p) ==
    /\ shPc[p] = "log"
    /\ \E ok \in BOOLEAN :
          /\ shErr' = [shErr EXCEPT ![p] = ~ok]
          /\ shPc' = [shPc EXCEPT ![p] = IF ok THEN "shortlog" ELSE "sigLog"]
    /\ UNCHANGED <<callVars, variant, blameVars, topnVars, shMain, shI, merged,
                   shClosed, shOut>>

\* what a git shortlog that succeeds can print.  After a git log that
\* failed, c is empty and the range is "..HEAD", which holds no commit.
ShortlogOutputs(logFailed) ==
    IF logFailed THEN {<<BlankLine>>} ELSE ShellOutputs

\* committerCounts runs git shortlog: on an error run returns "", and
\* committerCounts signals and goes on to the loop over the lines of ""
ShShortlog(p) ==
    /\ shPc[p] = "shortlog"
    /\ \/ /\ shErr' = [shErr EXCEPT ![p] = TRUE]
          /\ shOut' = [shOut EXCEPT ![p] = <<BlankLine>>]
          /\ shPc' = [shPc EXCEPT ![p] = "sigShortlog"]
       \/ /\ \E out \in ShortlogOutputs(shErr[p]) :
                shOut' = [shOut EXCEPT ![p] = out]
          /\ shPc' = [shPc EXCEPT ![p] = "stats"]
          /\ UNCHANGED shErr
    /\ UNCHANGED <<callVars, variant, blameVars, topnVars, shMain, shI, merged,
                   shClosed>>

\* where a committerCounts goes on after a send on the done channel
AfterSignal(pc) ==
    CASE pc = "sigLog" -> "shortlog"
      [] pc = "sigShortlog" -> "stats"
      [] pc = "sigFinal" -> "exited"

\* done <- signal meets case signal := <-opCh of the select: i++
ShSignal(p) ==
    /\ shPc[p] \in {"sigLog", "sigShortlog", "sigFinal"}
    /\ shMain = "loop"
    /\ shI < NumPaths
    /\ shI' = shI + 1
    /\ shPc' = [shPc EXCEPT ![p] = AfterSignal(shPc[p])]
    /\ UNCHANGED <<callVars,
                   variant, blameVars, topnVars, shMain, merged, shClosed,
                   shOut, shErr>>

\* stat <- Stat{rvwr, cti} meets case stat := <-statCh of the select
ShStat(p) ==
    /\ shPc[p] = "stats"
    /\ shOut[p] # <<>>
    /\ ~Skipped(Head(shOut[p]))
    /\ shMain = "loop"
    /\ shI < NumPaths
    /\ merged' = MergeAdd(merged, ParseStat(Head(shOut[p])))
    /\ shOut' = [shOut EXCEPT ![p] = Tail(shOut[p])]
    /\ UNCHANGED <<callVars,
                   variant, blameVars, topnVars, shMain, shI, shClosed, shPc,
                   shErr>>

\* a line with no count in it: continue
ShSkipLine(p) ==
    /\ shPc[p] = "stats"
    /\ shOut[p] # <<>>
    /\ Skipped(Head(shOut[p]))
    /\ shOut' = [shOut EXCEPT ![p] = Tail(shOut[p])]
    /\ UNCHANGED <<callVars, variant, blameVars, topnVars, shMain, shI, merged,
                   shClosed, shPc, shErr>>

\* the loop over the output lines has ended: on to the last done <- signal
ShStatsEnd(p) ==
    /\ shPc[p] = "stats"
    /\ shOut[p] = <<>>
    /\ shPc' = [shPc EXCEPT ![p] = "sigFinal"]
    /\ UNCHANGED <<callVars, variant, blameVars, topnVars, shMain, shI, merged,
                   shClosed, shOut, shErr>>

\* i reached len(paths): close(statCh), close(opCh)
ShClose ==
    /\ shMain = "loop"
    /\ shI = NumPaths
    /\ shClosed' = TRUE
    /\ shMain' = "done"
    /\ UNCHANGED <<callVars,
                   variant, blameVars, topnVars, shI, merged, shPc, shOut,
                   shErr>>

\* a committerCounts blocked in a send when the channels are closed panics
ShPanic(p) ==
    /\ shClosed
    /\ \/ shPc[p] \in {"sigLog", "sigShortlog", "sigFinal"}
       \/ shPc[p] = "stats" /\ shOut[p] # <<>> /\ ~Skipped(Head(shOut[p]))
    /\ shPc' = [shPc EXCEPT ![p] = "panic"]
    /\ UNCHANGED <<callVars, variant, blameVars, topnVars, shMain, shI, merged,
                   shClosed, shOut, shErr>>

NextShell ==
    \/ \E p \in Paths :
          \/ ShLog(p)
          \/ ShShortlog(p)
          \/ ShSignal(p)
          \/ ShStat(p)
          \/ ShSkipLine(p)
          \/ ShStatsEnd(p)
          \/ ShPanic(p)
    \/ ShClose

SpecShell == InitShell /\ [][NextShell]_vars

(***************************************************************************)
(* Either variant of FindReviewers.                                        *)
(***************************************************************************)
InitVariants == Init \/ InitShell

NextVariants == Next \/ NextShell

SpecVariants == InitVariants /\ [][NextVariants]_vars

(***************************************************************************)
(* What the blame results recorded so far add up to.                       *)
(***************************************************************************)
\* the paths whose batch the collector has received
SentPaths == {p \in Paths : pathPc[p] \in {"sent", "returned"}}

\* the paths for which git blame failed or a line did not parse
FailedPaths == {p \in Paths : blame[p].kind \in {"cmdFail", "parseFail"}}

BatchOf(p) == Attributions(blame[p].lines, Since, Mailmap)

RECURSIVE CountIn(_, _)
CountIn(attrs, a) ==
    IF attrs = <<>> THEN 0
    ELSE (IF Head(attrs).author = a THEN Head(attrs).n ELSE 0)
         + CountIn(Tail(attrs), a)

RECURSIVE SumCounts(_, _)
SumCounts(P, a) ==
    IF P = {} THEN 0
    ELSE LET p == CHOOSE x \in P : TRUE
         IN CountIn(BatchOf(p), a) + SumCounts(P \ {p}, a)

AuthorsIn(P) ==
    UNION {{BatchOf(p)[i].author : i \in DOMAIN BatchOf(p)} : p \in P}

RECURSIVE SumAuthors(_, _)
SumAuthors(P, A) ==
    IF A = {} THEN 0
    ELSE LET a == CHOOSE x \in A : TRUE
         IN SumCounts(P, a) + SumAuthors(P, A \ {a})

\* the per-contributor line counts of the batches of the paths P
ExpectedCounts(P) == [a \in AuthorsIn(P) |-> Float(SumCounts(P, a))]

\* the number of lines in the batches of the paths P
ExpectedTotal(P) == SumAuthors(P, AuthorsIn(P))

\* generateCounts returned its error to FindReviewers
BailedOut ==
    mainPc = "done" /\ result.kind = "error" /\ result.err # "noReviewers"

(***************************************************************************)
(* Properties of generateCounts and FindReviewers.                         *)
(***************************************************************************)
\* C1: the counts and the total generateCounts returns are a function of the
\* blame results of the paths alone: whatever the order in which the per-path
\* goroutines ran, sent and finished, a return with counts returns the sums
\* over the batches of all paths, and a return with an error returns no
\* counts and a zero total.
C1_CountsIndependentOfOrder ==
    /\ mainPc = "normalize" =>
          /\ SentPaths = Paths
          /\ linesByCommitter = ExpectedCounts(Paths)
          /\ totalLines = ExpectedTotal(Paths) % UInt16Mod
    /\ BailedOut =>
          /\ linesByCommitter = <<>>
          /\ totalLines = 0
          /\ result.err \in {"masterRef", "masterCommit"} \/ FailedPaths # {}

\* generateCounts returned the counts of two paths with different batches,
\* two contributors among them
C1_Witness ==
    /\ mainPc = "normalize"
    /\ totalLines >= 2
    /\ Cardinality(DOMAIN linesByCommitter) = 2
    /\ blame[1].lines # blame[2].lines

\* C2: generateCounts never waits forever in wg.Wait(): whatever the outcome
\* of git blame for each path, while it waits some goroutine can still act.
C2_NeverWaitsForever == mainPc = "wait" => ENABLED Next

\* C3: a git blame failure on one path, the others succeeding, neither aborts
\* FindReviewers with that error nor leaves it waiting forever.
C3_FailedPathIsSkipped ==
    (/\ \E p \in Paths : blame[p].kind = "cmdFail"
     /\ \A p \in Paths : blame[p].kind \in {"cmdFail", "ok", "none"})
    => /\ ~BailedOut
       /\ mainPc = "wait" => ENABLED Next

\* generateCounts returned counts to FindReviewers
ReturnedCounts == reporterClosed

\* C6: percentages are computed only after aggregation is complete: once
\* generateCounts has returned, every batch a per-path task sent is folded
\* into linesByCommitter and totalLines, the collector updates them no more,
\* and every Stat's percentage is its count over that final total.
C6_NormalizedAfterAggregation ==
    /\ [](ReturnedCounts =>
            /\ batch = <<>>
            /\ consumerPc = "exited"
            /\ mainPc = "normalize" =>
                  /\ linesByCommitter = ExpectedCounts(SentPaths)
                  /\ totalLines = ExpectedTotal(SentPaths) % UInt16Mod
            /\ mainPc \in {"select", "done"} =>
                  /\ {final[i].Reviewer : i \in DOMAIN final}
                        = AuthorsIn(SentPaths)
                  /\ \A i \in DOMAIN final :
                        final[i].Percentage =
                           [num |-> SumCounts(SentPaths, final[i].Reviewer),
                            den |-> totalLines])
    /\ [][ReturnedCounts =>
            /\ totalLines' = totalLines
            /\ mainPc # "normalize" => linesByCommitter' = linesByCommitter]_vars

\* FindReviewers has normalized the counts of two batches of two lines each
C6_Witness ==
    /\ mainPc = "select"
    /\ totalLines = 4
    /\ Len(final) = 2
    /\ \A p \in Paths : Len(blame[p].lines) = 2

\* C10: FindReviewers returns noReviewersErr exactly when generateCounts
\* returned without error and no line was counted; an unreadable master
\* reference or commit gives that other error; no error comes with reviewers.
C10_NoReviewersIffNothingCounted ==
    mainPc = "done" =>
       /\ result = [kind |-> "error", err |-> "noReviewers"]
             <=> (ReturnedCounts /\ ExpectedTotal(SentPaths) = 0)
       /\ rgErr \in {"masterRef", "masterCommit"} =>
             result = [kind |-> "error", err |-> rgErr]
       /\ result.kind = "error" => "reviewers" \notin DOMAIN result
       /\ result.kind = "ok" => Len(result.reviewers) > 0

\* FindReviewers returned noReviewersErr for blame lines that are all older
\* than Since
C10_Witness ==
    /\ mainPc = "done"
    /\ result = [kind |-> "error", err |-> "noReviewers"]
    /\ Since = LateSince
    /\ \A p \in Paths : Len(blame[p].lines) > 0

RECURSIVE SumValues(_, _)
SumValues(m, A) ==
    IF A = {} THEN 0
    ELSE LET a == CHOOSE x \in A : TRUE
         IN m[a].num + SumValues(m, A \ {a})

\* C4: while generateCounts aggregates, and when it returns, totalLines is
\* the sum of linesByCommitter over all contributors.
C4_Conservation ==
    mainPc \in {"wait", "normalize"} =>
        totalLines = SumValues(linesByCommitter, DOMAIN linesByCommitter)

\* C8: after normalization every score lies in [0, 1] and the scores of the
\* run sum to 1.
C8_ScoresNormalized ==
    (mainPc \in {"select", "done"} /\ ReturnedCounts /\ final # <<>>) =>
        /\ \A i \in DOMAIN final :
              /\ final[i].Percentage.den > 0
              /\ 0 <= final[i].Percentage.num
              /\ final[i].Percentage.num <= final[i].Percentage.den
              /\ final[i].Percentage.den = final[1].Percentage.den
        /\ SumValues(linesByCommitter, DOMAIN linesByCommitter)
              = final[1].Percentage.den

\* the canonical email the mailmap gives a raw email
Canon(e) == IF e \in DOMAIN Mailmap THEN Mailmap[e] ELSE e

RECURSIVE RawIn(_, _)
RawIn(lines, e) ==
    IF lines = <<>> THEN 0
    ELSE (IF Head(lines).email = e /\ ~StrLess(Head(lines).date, Since)
          THEN Head(lines).n ELSE 0) + RawIn(Tail(lines), e)

\* the retained blame lines of all paths that carry the raw email e
RECURSIVE RawCount(_, _)
RawCount(P, e) ==
    IF P = {} THEN 0
    ELSE LET p == CHOOSE x \in P : TRUE
         IN RawIn(blame[p].lines, e) + RawCount(P \ {p}, e)

RawEmails ==
    UNION {{blame[p].lines[i].email : i \in DOMAIN blame[p].lines} :
              p \in SentPaths}

RECURSIVE SumRaw(_)
SumRaw(E) ==
    IF E = {} THEN 0
    ELSE LET e == CHOOSE x \in E : TRUE
         IN RawCount(SentPaths, e) + SumRaw(E \ {e})

\* C9: blame lines whose raw emails differ but have the same canonical email
\* in the mailmap are counted in one bucket, that of the canonical email.
C9_AliasesShareBucket ==
    mainPc = "normalize" =>
       /\ DOMAIN linesByCommitter = {Canon(e) : e \in RawEmails}
       /\ \A c \in DOMAIN linesByCommitter :
             linesByCommitter[c].num = SumRaw({e \in RawEmails : Canon(e) = c})

\* 4 lines under b@old.com and 6 under b@new.com, aliased: one bucket of 10
C9_Witness ==
    /\ mainPc = "normalize"
    /\ Mailmap = AliasMap
    /\ blame[1].lines = <<Hunk("b@old.com", NewDate, 4)>>
    /\ blame[2].lines = <<Hunk("b@new.com", NewDate, 6)>>
    /\ linesByCommitter = [c \in {"b@new.com"} |-> Float(10)]

\* the goroutines that stand at a statement that writes linesByCommitter or
\* totalLines
TotalsWriters ==
    (IF consumerPc = "fold" /\ batch # <<>> THEN {"collector"} ELSE {})
    \cup (IF mainPc = "normalize" THEN {"FindReviewers"} ELSE {})

\* C7: the totals are updated by a single consumer only.  In generateCounts
\* every change of linesByCommitter or totalLines is the collector folding
\* the head of the batch it received (or, after the collector has exited,
\* FindReviewers normalizing), no per-path goroutine moves in such a step,
\* and never two goroutines stand at an update at once; in the shell variant
\* every change of merged is the select loop of FindReviewers receiving one
\* Stat.
C7_SingleWriterOfTotals ==
    /\ [](Cardinality(TotalsWriters) <= 1)
    /\ [][(linesByCommitter' # linesByCommitter \/ totalLines' # totalLines) =>
            /\ pathPc' = pathPc
            /\ \/ /\ consumerPc = "fold" /\ batch # <<>>
                  /\ mainPc = "wait" /\ mainPc' = mainPc
                  /\ batch' = Tail(batch)
                  /\ linesByCommitter' =
                        MapAdd(linesByCommitter, Head(batch).author,
                               Head(batch).n)
               \/ /\ mainPc = "normalize"
                  /\ consumerPc = "exited"]_vars
    /\ [][merged' # merged =>
            /\ shMain = "loop" /\ shMain' = "loop"
            /\ \E p \in Paths :
                  /\ shPc[p] = "stats" /\ shOut[p] # <<>>
                  /\ shOut' = [shOut EXCEPT ![p] = Tail(shOut[p])]
                  /\ merged' =
                        MergeAdd(merged, ParseStat(Head(shOut[p])))]_vars

\* the collector is folding a later batch into totals that already hold an
\* earlier one, whose per-path goroutine has returned
C7_Witness ==
    /\ consumerPc = "fold" /\ batch # <<>>
    /\ totalLines > 0
    /\ \E p \in Paths : pathPc[p] = "returned"
    /\ \E p \in Paths : pathPc[p] = "sent"

\* in the shell variant the select loop has merged the Stats of two paths
ShellMergedTwoPaths ==
    /\ shMain = "loop"
    /\ DOMAIN merged = {"a", "b"}
    /\ \A p \in Paths : shPc[p] = "sigFinal"

(***************************************************************************)
(* ContributionCounter.BranchBehind: four lookups and a comparison of the  *)
(* committer times, run through maybeRunMany.                              *)
(***************************************************************************)
\* the operations of BranchBehind in the order maybeRunMany is given them
BehindOps ==
    <<"masterRef", "headRef", "masterCommit", "headCommit", "compare">>

\* a comparison that also holds for equal times
NotAfter(a, b) == a <= b

\* time.Time.Before
Before(a, b) == a < b

\* rg.msg as each operation of BranchBehind sets it
BehindMsgs ==
    <<"issue opening master reference", "issue opening HEAD reference",
      "issue opening master commit", "issue opening HEAD commit",
      "issue comparing commit dates">>

\* the state of a call of BranchBehind before its first operation
BehindStart == [kind |-> "running", ran |-> <<>>, behind |-> FALSE,
                err |-> "nil", msg |-> ""]

\* the lookup op fails in the repository of the call c: c.failAt is the
\* first lookup that fails, and with c.later so does every lookup after it
BehindFails(op, c) ==
    \/ op = c.failAt
    \/ /\ c.later
       /\ \E i, j \in 1..4 :
             BehindOps[i] = c.failAt /\ BehindOps[j] = op /\ i < j

\* one operation of the sequence: a lookup stores its error, if any, on
\* rg.err; the comparison sets behind; each sets rg.msg.
BehindOp(st, c) ==
    LET op == BehindOps[Len(st.ran) + 1] IN
    [st EXCEPT
        !.ran = Append(st.ran, op),
        !.err = IF BehindFails(op, c) THEN op ELSE "nil",
        !.msg = BehindMsgs[Len(st.ran) + 1],
        !.behind = IF op = "compare" THEN Before(c.head, c.master)
                   ELSE st.behind]

\* a sequence that runs every operation, whatever rg.err holds
BehindRunsAll(st) == Len(st.ran) < Len(BehindOps)

\* maybeRunMany goes on to the next operation
BehindGoesOn(st) == Len(st.ran) < Len(BehindOps) /\ st.err = "nil"

\* return behind, rg.err
BehindReturned(st) == [kind |-> "returned", ran |-> st.ran,
                       behind |-> st.behind, err |-> st.err,
                       msg |-> st.msg]

\* BranchBehind run to its return
RECURSIVE BranchBehind(_, _)
BranchBehind(st, c) ==
    IF BehindGoesOn(st) THEN BranchBehind(BehindOp(st, c), c)
    ELSE BehindReturned(st)

\* repositories: which lookup fails, and the committer times of the HEAD
\* and master commits
BehindCalls ==
    [fn : {"BranchBehind"},
     failAt : {"none", "masterRef", "headRef", "masterCommit", "headCommit"},
     later : BOOLEAN, head : 0..MaxTime, master : 0..MaxTime]

InitBehind ==
    /\ variant = "behind"
    /\ BlameIdle
    /\ TopNIdle
    /\ ShellIdle
    /\ call \in BehindCalls
    /\ ret = BehindStart

BehindStep ==
    /\ call.fn = "BranchBehind"
    /\ ret.kind = "running"
    /\ BehindGoesOn(ret)
    /\ ret' = BehindOp(ret, call)
    /\ UNCHANGED <<call, variant, blameVars, topnVars, shellVars>>

BehindReturn ==
    /\ call.fn = "BranchBehind"
    /\ ret.kind = "running"
    /\ ~BehindGoesOn(ret)
    /\ ret' = BehindReturned(ret)
    /\ UNCHANGED <<call, variant, blameVars, topnVars, shellVars>>

NextBehind == BehindStep \/ BehindReturn

SpecBehind == InitBehind /\ [][NextBehind]_vars

\* C22: BranchBehind returns true with no error exactly when the committer
\* time of the HEAD commit is strictly earlier than that of the master
\* commit; when a lookup fails it returns false with that error, having
\* performed the lookups up to the failing one and none after it.
C22_BehindIffStrictlyEarlier ==
    (variant = "behind" /\ ret.kind = "returned") =>
       /\ (ret.behind /\ ret.err = "nil")
             <=> (call.failAt = "none" /\ call.head < call.master)
       /\ call.failAt = "none" => ret.err = "nil" /\ ret.ran = BehindOps
       /\ call.failAt # "none" =>
             /\ ret.behind = FALSE
             /\ ret.err = call.failAt
             /\ \E k \in 1..4 :
                   /\ BehindOps[k] = call.failAt
                   /\ ret.ran = SubSeq(BehindOps, 1, k)

\* BranchBehind returned not behind for equal committer times
C22_Witness ==
    /\ variant = "behind"
    /\ ret.kind = "returned"
    /\ call.failAt = "none"
    /\ call.head = call.master
    /\ ret.behind = FALSE /\ ret.err = "nil"

\* C31: maybeRunMany keeps the first error: once an operation has stored an
\* error on the run guard no later operation is invoked, and rg.err and
\* rg.msg stay those of the first failing operation, also when the
\* operations after it would fail as well.
C31_FirstErrorSticks ==
    /\ [](variant = "behind" /\ ret.err # "nil" =>
            /\ ret.ran[Len(ret.ran)] = call.failAt
            /\ ret.err = call.failAt
            /\ ret.msg = BehindMsgs[Len(ret.ran)]
            /\ \A k \in 1..(Len(ret.ran) - 1) :
                  ~BehindFails(ret.ran[k], call))
    /\ [][variant = "behind" /\ ret.err # "nil" =>
            /\ ret'.ran = ret.ran
            /\ ret'.err = ret.err /\ ret'.msg = ret.msg]_vars

\* the HEAD reference failed in a repository where the commit lookups would
\* fail too: BranchBehind returned after two operations, with its error
C31_Witness ==
    /\ variant = "behind" /\ ret.kind = "returned"
    /\ call.failAt = "headRef" /\ call.later
    /\ ret.ran = <<"masterRef", "headRef">>
    /\ ret.err = "headRef" /\ ret.msg = "issue opening HEAD reference"

(***************************************************************************)
(* The command line: main validates the since flag with checkDateArg,      *)
(* opens the repository and calls FindReviewers.                           *)
(***************************************************************************)
IsDigit(b) == 48 <= b /\ b <= 57

\* the regular expression \d{4}-\d{2}-\d{2} matches the bytes of s from i on
dateRxMatchesAt(s, i) ==
    /\ i + 9 <= Len(s)
    /\ \A k \in {0, 1, 2, 3, 5, 6, 8, 9} : IsDigit(s[i + k])
    /\ s[i + 4] = 45
    /\ s[i + 7] = 45

\* dateRx.Find([]byte(input)) # nil: the expression is not anchored, so it
\* looks for a match anywhere in the input
dateRxFind(input) == \E i \in 1..Len(input) : dateRxMatchesAt(input, i)

\* checkDateArg(input)
checkDateArg(input) ==
    IF Len(input) = 0 THEN "no input"
    ELSE IF ~dateRxFind(input) THEN "format"
    ELSE "nil"

\* if len(*since) > 0 && err != nil { ... return }
SinceRejected(since) == Len(since) > 0 /\ checkDateArg(since) # "nil"

\* values of the since flag: none, a date, dates that are no calendar dates,
\* a date with other text around it, and text with no date in it
SinceFlags ==
    {<<>>,
     Date(2017, 5, 11),
     Date(2017, 13, 45),
     <<120>> \o Date(2017, 5, 11),
     Date(2017, 5, 11) \o <<84, 48, 57>>,
     <<50, 48, 49, 55, 48, 53, 49, 49>>,
     <<49, 55, 45, 53, 45, 49, 49>>,
     <<110, 111, 119>>}

\* The two versions of main: "counter" builds a ContributionCounter
\* (src/unnamed/part_007), "reviewer" a Reviewer (src/main.go).
MainCalls ==
    [fn : {"main"}, version : {"counter", "reviewer"}, force : BOOLEAN]

InitCli ==
    /\ variant = "cli"
    /\ TopNIdle
    /\ ShellIdle
    /\ call \in MainCalls
    /\ ret = [kind |-> "none"]
    /\ Since \in SinceFlags
    /\ Mailmap = <<>>
    /\ mainPc = "cliCheck"
    /\ rgErr = "nil" /\ rgMsg = "" /\ wg = 0 /\ reporterClosed = FALSE
    /\ pathPc = [p \in Paths |-> "off"]
    /\ blame = [p \in Paths |-> [kind |-> "none"]]
    /\ consumerPc = "off" /\ batch = <<>>
    /\ linesByCommitter = <<>> /\ totalLines = 0
    /\ final = <<>> /\ result = [kind |-> "none"]

\* err := checkDateArg(*since) and the test that follows it
CliCheckDate ==
    /\ mainPc = "cliCheck"
    /\ IF SinceRejected(Since)
       THEN /\ result' = [kind |-> "error", err |-> "sinceFormat"]
            /\ mainPc' = "done"
       ELSE /\ mainPc' = IF call.version = "counter" THEN "cliOpen"
                        ELSE "cliBehind"
            /\ UNCHANGED result
    /\ UNCHANGED <<callVars,
                   variant, Since, Mailmap, rgErr, rgMsg, wg, reporterClosed,
                   pathPc, blame, consumerPc, batch, linesByCommitter,
                   totalLines, final, topnVars, shellVars>>

\* os.Getwd() and gogit.PlainOpen(dir)
CliOpenRepo ==
    /\ mainPc = "cliOpen"
    /\ \E ok \in BOOLEAN :
          IF ok
          THEN /\ mainPc' = "cliBehind"
               /\ UNCHANGED result
          ELSE /\ result' = [kind |-> "error", err |-> "openRepo"]
               /\ mainPc' = "done"
    /\ UNCHANGED <<callVars,
                   variant, Since, Mailmap, rgErr, rgMsg, wg, reporterClosed,
                   pathPc, blame, consumerPc, batch, linesByCommitter,
                   totalLines, final, topnVars, shellVars>>

\* the test on the force flag after the merge-up message: main returns.
\* part_007 has if *force == false { return }, src/main.go if *force { return }
StopsBehind(c) == IF c.version = "counter" THEN c.force = FALSE ELSE c.force

\* if behind, err := r.BranchBehind(); behind || err != nil { ... }
CliBranchBehind ==
    /\ mainPc = "cliBehind"
    /\ \E c \in BehindCalls :
          /\ ret' = BranchBehind(BehindStart, c)
          /\ IF ret'.err # "nil"
             THEN /\ result' = [kind |-> "error", err |-> "branchState"]
                  /\ mainPc' = "done"
             ELSE IF ret'.behind /\ StopsBehind(call)
             THEN /\ result' = [kind |-> "error", err |-> "mergeUp"]
                  /\ mainPc' = "done"
             ELSE /\ mainPc' = "cliFiles"
                  /\ UNCHANGED result
    /\ UNCHANGED <<call, variant, Since, Mailmap, rgErr, rgMsg, wg,
                   reporterClosed, pathPc, blame, consumerPc, batch,
                   linesByCommitter, totalLines, final, topnVars, shellVars>>

\* files, err := r.FindFiles(): main stops on an error or when no file
\* changed; otherwise it calls FindReviewers of its version
CliFindFiles ==
    /\ mainPc = "cliFiles"
    /\ \E outcome \in {"ok", "findFiles", "noChanges"} :
          IF outcome # "ok"
          THEN /\ result' = [kind |-> "error", err |-> outcome]
               /\ mainPc' = "done"
               /\ UNCHANGED <<shMain, shPc>>
          ELSE IF call.version = "counter"
          THEN /\ mainPc' = "start"
               /\ UNCHANGED <<result, shMain, shPc>>
          ELSE /\ mainPc' = "shell"
               /\ shMain' = "loop"
               /\ shPc' = [p \in Paths |-> "log"]
               /\ UNCHANGED result
    /\ UNCHANGED <<callVars,
                   variant, Since, Mailmap, rgErr, rgMsg, wg, reporterClosed,
                   pathPc, blame, consumerPc, batch, linesByCommitter,
                   totalLines, final, topnVars, shI, merged, shClosed, shOut,
                   shErr>>

\* files with at most one run of lines
CliOutputs == {<<>>, <<Hunk("a@x.com", NewDate, 1)>>}

NextCli ==
    \/ CliCheckDate
    \/ CliOpenRepo
    \/ CliBranchBehind
    \/ CliFindFiles
    \/ NextOver(CliOutputs)
    \/ NextShell

SpecCli == InitCli /\ [][NextCli]_vars

\* DaysIn(y, m): the days of month m of year y
DaysIn(y, m) ==
    IF m \in {4, 6, 9, 11} THEN 30
    ELSE IF m # 2 THEN 31
    ELSE IF (y % 4 = 0 /\ y % 100 # 0) \/ y % 400 = 0 THEN 29
    ELSE 28

\* s is a calendar date written YYYY-MM-DD and nothing else
IsCalendarDate(s) ==
    /\ Len(s) = 10
    /\ dateRxMatchesAt(s, 1)
    /\ LET y == 1000 * (s[1] - 48) + 100 * (s[2] - 48) + 10 * (s[3] - 48)
                + (s[4] - 48)
           m == 10 * (s[6] - 48) + (s[7] - 48)
           d == 10 * (s[9] - 48) + (s[10] - 48)
       IN /\ m \in 1..12
          /\ d \in 1..DaysIn(y, m)

\* git blame has run for some path and runAndReport has compared r.Since
\* with the date of a line
SinceCompared ==
    \E p \in Paths :
        blame[p].kind \in {"ok", "scanErr"} /\ blame[p].lines # <<>>

\* C11: a since flag that is not a calendar date written YYYY-MM-DD makes
\* main stop with the format error at checkDateArg: it never goes on to open
\* the repository, and the value is never compared with a blame date.
C11_BadSinceIsRejected ==
    (variant = "cli" /\ Since # <<>> /\ ~IsCalendarDate(Since)) =>
        /\ mainPc \in {"cliCheck", "done"}
        /\ mainPc = "done" => result = [kind |-> "error", err |-> "sinceFormat"]
        /\ ~SinceCompared

(***************************************************************************)
(* Runs over blame lines dated before, on and after the Since date.        *)
(***************************************************************************)
\* a date of the year before, with a later month and day
LastYear == Date(2016, 12, 31)

\* the day before the Since date
DayBefore == Date(2017, 5, 9)

DatedOutputs ==
    OutputsOver({Hunk("a@x.com", LastYear, 1), Hunk("a@x.com", NewDate, 1),
                 Hunk("b@old.com", DayBefore, 1)})

InitDated == InitBlame({<<>>, SixMonthsAgo}, {<<>>})

NextDated == NextOver(DatedOutputs)

SpecDated == InitDated /\ [][NextDated]_vars

\* the day a YYYY-MM-DD date denotes, as a number that grows with time
DayNumber(s) ==
    (1000 * (s[1] - 48) + 100 * (s[2] - 48) + 10 * (s[3] - 48) + (s[4] - 48))
       * 10000
    + (10 * (s[6] - 48) + (s[7] - 48)) * 100
    + (10 * (s[9] - 48) + (s[10] - 48))

\* the lines of the author a in the blame output that are dated on or after
\* the day since
RECURSIVE OnOrAfter(_, _, _)
OnOrAfter(lines, since, a) ==
    IF lines = <<>> THEN 0
    ELSE (IF Canon(Head(lines).email) = a
             /\ DayNumber(Head(lines).date) >= DayNumber(since)
          THEN Head(lines).n ELSE 0)
         + OnOrAfter(Tail(lines), since, a)

RECURSIVE OnOrAfterAll(_, _)
OnOrAfterAll(P, a) ==
    IF P = {} THEN 0
    ELSE LET p == CHOOSE x \in P : TRUE
         IN OnOrAfter(blame[p].lines, Since, a) + OnOrAfterAll(P \ {p}, a)

BlameAuthors ==
    UNION {{Canon(blame[p].lines[i].email) : i \in DOMAIN blame[p].lines} :
              p \in Paths}

RECURSIVE SumOnOrAfter(_)
SumOnOrAfter(A) ==
    IF A = {} THEN 0
    ELSE LET a == CHOOSE x \in A : TRUE
         IN OnOrAfterAll(Paths, a) + SumOnOrAfter(A \ {a})

\* C12: a blame line is counted iff its commit date is not before Since.  The
\* counts generateCounts returns are, for every contributor, the lines dated
\* on the Since day or later; a contributor whose lines are all earlier has no
\* count, and the total is the number of lines dated on the Since day or later.
C12_CountedIffNotBeforeSince ==
    mainPc = "normalize" =>
       /\ \A a \in BlameAuthors :
             IF OnOrAfterAll(Paths, a) = 0
             THEN a \notin DOMAIN linesByCommitter
             ELSE /\ a \in DOMAIN linesByCommitter
                  /\ linesByCommitter[a] = Float(OnOrAfterAll(Paths, a))
       /\ DOMAIN linesByCommitter \subseteq BlameAuthors
       /\ totalLines = SumOnOrAfter(BlameAuthors)

\* one file holds a line of the year before and a line dated on the Since
\* day, the other a line of the day before: one line is counted
C12_Witness ==
    /\ mainPc = "normalize"
    /\ blame[1].lines = <<Hunk("a@x.com", LastYear, 1),
                          Hunk("a@x.com", NewDate, 1)>>
    /\ blame[2].lines = <<Hunk("b@old.com", DayBefore, 1)>>
    /\ Since = NewDate
    /\ linesByCommitter = [a \in {"a@x.com"} |-> Float(1)]
    /\ totalLines = 1

\* C32: when git blame cannot be run for a path, generateCounts bails out
\* early: it is at its check of rg.err or has returned from it, never
\* collecting or waiting, and what it returns is an error with no counts
\* and a zero total.
C32_BlameFailureBailsOut ==
    (\E p \in Paths : blame[p].kind = "cmdFail") =>
       /\ mainPc \in {"check", "done"}
       /\ mainPc = "done" =>
             /\ result.kind = "error"
             /\ result.err \in {"blameCmd", "blameParse", "scan"}
             /\ linesByCommitter = <<>> /\ totalLines = 0

\* C33: a run of FindReviewers leaves the Since field of the counter as the
\* caller set it: no step of a run assigns it, so that an empty Since is
\* still empty for the next run, which derives its default anew.
C33_RunLeavesSinceAsSet == [][Since' = Since]_vars

\* C34: once generateCounts has returned, with counts or with an error, a
\* per-path goroutine that stands at its send on the reporter channel still
\* has the collector to receive it, and the channel is not closed.
C34_NoSenderStranded ==
    (BailedOut \/ ReturnedCounts) =>
        \A p \in Paths :
            pathPc[p] = "sending" =>
                consumerPc \in {"recv", "fold"} /\ ~reporterClosed

\* C13: when the master reference or its commit cannot be resolved,
\* generateCounts fails fast: no per-path goroutine and no collector is ever
\* started, no git blame runs, and the call returns that error with no counts
\* and a zero total.
C13_FailsFastWithoutMaster ==
    rgErr \in {"masterRef", "masterCommit"} =>
       /\ \A p \in Paths : pathPc[p] = "off" /\ blame[p].kind = "none"
       /\ consumerPc = "off"
       /\ mainPc \in {"check", "done"}
       /\ linesByCommitter = <<>> /\ totalLines = 0
       /\ mainPc = "done" => result = [kind |-> "error", err |-> rgErr]

\* FindReviewers returned the error of the commit lookup, the reference
\* having resolved
C13_Witness ==
    /\ mainPc = "done"
    /\ rgErr = "masterCommit"
    /\ result = [kind |-> "error", err |-> "masterCommit"]

Kept(h) == {h[i].Reviewer : i \in DOMAIN h}

C16_TiesInInputOrder ==
    tnPc = "done" =>
        \A i, j \in DOMAIN top :
            (/\ i < j
             /\ ~FLess(top[i].Percentage, top[j].Percentage)
             /\ ~FLess(top[j].Percentage, top[i].Percentage))
            => top[i].Reviewer < top[j].Reviewer

(***************************************************************************)
(* Runs over files of up to four contributors.                             *)
(***************************************************************************)
ManyOutputs ==
    {<<>>,
     <<Hunk("a@x.com", NewDate, 1)>>,
     <<Hunk("a@x.com", NewDate, 1), Hunk("b@old.com", NewDate, 2)>>,
     <<Hunk("c@x.com", NewDate, 3), Hunk("d@x.com", NewDate, 4)>>,
     <<Hunk("b@new.com", NewDate, 1), Hunk("c@x.com", NewDate, 3)>>}

InitMany == InitBlame({<<>>}, {<<>>, AliasMap})

NextMany == NextOver(ManyOutputs)

SpecMany == InitMany /\ [][NextMany]_vars

\* the canonical contributors with at least one counted line
CountedAuthors == {a \in BlameAuthors : OnOrAfterAll(Paths, a) > 0}

\* the share of the counted lines that are the contributor's
Share(a) == [num |-> OnOrAfterAll(Paths, a), den |-> SumOnOrAfter(BlameAuthors)]

\* C17: FindReviewers reports exactly min(3, number of canonical contributors
\* with counted lines) reviewers, each with its share of the counted lines,
\* in non-increasing order of share, and no contributor it leaves out has a
\* strictly higher share than one it reports; with no contributor it reports
\* noReviewersErr.
C17_ReportsTopThree ==
    (mainPc = "done" /\ ReturnedCounts) =>
       /\ Cardinality(CountedAuthors) = 0 <=> result.kind = "error"
       /\ result.kind = "ok" =>
             LET rs == result.reviewers
                 reported == {rs[i].Reviewer : i \in DOMAIN rs}
             IN /\ Len(rs) = Min(3, Cardinality(CountedAuthors))
                /\ Cardinality(reported) = Len(rs)
                /\ reported \subseteq CountedAuthors
                /\ \A i \in DOMAIN rs : rs[i].Percentage = Share(rs[i].Reviewer)
                /\ \A i, j \in DOMAIN rs :
                      i < j => ~FLess(rs[i].Percentage, rs[j].Percentage)
                /\ \A a \in CountedAuthors \ reported :
                      \A i \in DOMAIN rs : ~FLess(rs[i].Percentage, Share(a))

\* four contributors were counted, three are reported, and the one left out
\* has a strictly lower share than each of them
C17_Witness ==
    /\ mainPc = "done"
    /\ result.kind = "ok"
    /\ Cardinality(CountedAuthors) = 4
    /\ Len(result.reviewers) = 3
    /\ \A a \in CountedAuthors \ {result.reviewers[i].Reviewer : i \in 1..3} :
          \A i \in 1..3 : FLess(Share(a), result.reviewers[i].Percentage)

\* the per-path goroutines whose next statement can write rg.err
\* (rg.err = err after runAndReport returned an error)
RgErrWriters ==
    {p \in Paths : ENABLED PathBlameFail(p) \/ ENABLED PathReturnErr(p)}

\* the per-path goroutines whose next statement reads rg.err
\* (if rg.err != nil at the start of the goroutine)
RgErrReaders == {p \in Paths : pathPc[p] = "spawned"}

\* the coordinating call stands at its read of rg.err (if rg.err != nil
\* after maybeRunMany)
CoordinatorReadsRgErr == mainPc = "check"

\* C18: apart from the totals, no variable is shared between concurrent
\* tasks: no per-path goroutine stands at a write of rg.err while another
\* per-path goroutine stands at a write or a read of it, or while the
\* coordinating call stands at its read of it, no channel operation or
\* WaitGroup call ordering the two.
C18_OnlyTotalsShared ==
    \A p \in RgErrWriters :
        /\ ~CoordinatorReadsRgErr
        /\ \A q \in Paths \ {p} : q \notin RgErrWriters \cup RgErrReaders

\* committerCounts stands at a done <- signal
AtDoneSend(pc) == pc \in {"sigLog", "sigShortlog", "sigFinal"}

\* C19: committerCounts sends exactly one message on the done channel, after
\* all of its Stats: whenever one of its sends on done is received, it has no
\* line left to send a Stat for and it returns, so that no second send on
\* done follows.
C19_OneDoneSignal ==
    [][\A p \in Paths :
          (AtDoneSend(shPc[p]) /\ shPc'[p] \notin {shPc[p], "panic"}) =>
              /\ shPc'[p] = "exited"
              /\ shOut[p] = <<>>]_vars

\* committerCounts stands at stat <- Stat{rvwr, cti}
AtStatSend(p) ==
    shPc[p] = "stats" /\ shOut[p] # <<>> /\ ~Skipped(Head(shOut[p]))

\* C20: a committerCounts whose git command failed sends no Stat and its
\* signals carry a non-nil error; one whose commands succeed signals a nil
\* error and every Stat it sends has a non-empty Reviewer and a non-zero
\* Count.  signal.err is set by a failing command only and never cleared.
C20_ErrorOrStats ==
    /\ [](\A p \in Paths :
            /\ shPc[p] \in {"sigLog", "sigShortlog"} => shErr[p]
            /\ AtStatSend(p) =>
                  /\ ~shErr[p]
                  /\ ParseStat(Head(shOut[p])).Reviewer # ""
                  /\ ParseStat(Head(shOut[p])).Count # 0)
    /\ [][\A p \in Paths :
            /\ shErr'[p] # shErr[p] =>
                  shErr'[p] /\ shPc'[p] \in {"sigLog", "sigShortlog"}
            /\ (shPc[p] = "log" /\ shPc'[p] = "shortlog") => ~shErr'[p]
            /\ (AtDoneSend(shPc[p]) /\ shErr[p]) => shOut'[p] = shOut[p]]_vars

\* the committerCounts of path 1 failed in git shortlog and stands at its
\* last signal with the error, having sent no Stat; that of path 2 has sent
\* one Stat and stands at the send of its second, with a nil error
C20_Witness ==
    /\ shPc[1] = "sigFinal" /\ shErr[1]
    /\ shPc[2] = "stats" /\ ~shErr[2]
    /\ Len(shOut[2]) = 2 /\ AtStatSend(2)
    /\ Cardinality(DOMAIN merged) = 1

\* C35: statCh and opCh are closed only after every committerCounts has
\* performed its last send: once they are closed no goroutine stands at a
\* send on either channel, and none has panicked in one.
C35_ClosedAfterLastSend ==
    /\ \A p \in Paths : shPc[p] # "panic"
    /\ shClosed =>
          \A p \in Paths : ~AtDoneSend(shPc[p]) /\ ~AtStatSend(p)

\* C36: the merge loop ends only after every committerCounts has finished:
\* when it has ended every goroutine has returned with no Stat left to send,
\* so that merged holds every Stat of every path, failing paths included.
C36_LoopEndsAfterAllTasks ==
    shMain = "done" =>
        \A p \in Paths : shPc[p] = "exited" /\ shOut[p] = <<>>

\* C21: when the branch is behind master, main prints the merge-up message
\* and stops there unless -force was given; with -force it goes on to find
\* the changed files and the reviewers.
C21_ForceContinuesWhenBehind ==
    (variant = "cli" /\ ret.kind = "returned"
        /\ ret.behind /\ ret.err = "nil") =>
       (call.force <=> result # [kind |-> "error", err |-> "mergeUp"])

(***************************************************************************)
(* ContributionCounter.FindFiles with considerExt and considerPath.        *)
(* Paths, extensions and prefixes are sequences of characters.             *)
(***************************************************************************)
\* strings.HasSuffix(s, suffix)
HasSuffix(s, suffix) ==
    /\ Len(suffix) <= Len(s)
    /\ SubSeq(s, Len(s) - Len(suffix) + 1, Len(s)) = suffix

\* strings.HasPrefix(s, prefix)
HasPrefix(s, prefix) ==
    /\ Len(prefix) <= Len(s)
    /\ SubSeq(s, 1, Len(prefix)) = prefix

\* strings.TrimPrefix(s, prefix)
TrimPrefix(s, prefix) ==
    IF HasPrefix(s, prefix) THEN SubSeq(s, Len(prefix) + 1, Len(s)) ELSE s

Svg == <<"s", "v", "g">>

Json == <<"j", "s", "o", "n">>

Nock == <<"n", "o", "c", "k">>

Xml == <<"x", "m", "l">>

defaultIgnoreExt == <<Svg, Json, Nock, Xml>>

\* a considerExt that tests the extensions of the options only
considerExtNoDefaults(path, opts) ==
    IF Len(opts.OnlyExtensions) > 0
    THEN \E i \in DOMAIN opts.OnlyExtensions :
            HasSuffix(path, opts.OnlyExtensions[i])
    ELSE \A i \in DOMAIN opts.IgnoredExtensions :
            ~HasSuffix(path, opts.IgnoredExtensions[i])

\* considerExt(path, opts)
considerExt(path, opts) ==
    LET ignExt == defaultIgnoreExt \o opts.IgnoredExtensions
        lAllow == Len(opts.OnlyExtensions)
        lIgnore == Len(ignExt)
    IN IF lAllow = 0 /\ lIgnore = 0 THEN TRUE
       ELSE IF lAllow > 0
       THEN \E i \in DOMAIN opts.OnlyExtensions :
               HasSuffix(path, opts.OnlyExtensions[i])
       ELSE IF lIgnore > 0
       THEN \A i \in DOMAIN ignExt : ~HasSuffix(path, ignExt[i])
       ELSE FALSE

\* considerPath(path, opts)
considerPath(path, opts) ==
    LET lAllow == Len(opts.OnlyPaths)
        lIgnore == Len(opts.IgnoredPaths)
        pLen == Len(path)
    IN IF lAllow = 0 /\ lIgnore = 0 THEN TRUE
       ELSE IF lAllow > 0
       THEN \E i \in DOMAIN opts.OnlyPaths :
               Len(TrimPrefix(path, opts.OnlyPaths[i])) < pLen
       ELSE IF lIgnore > 0
       THEN \A i \in DOMAIN opts.IgnoredPaths :
               Len(TrimPrefix(path, opts.IgnoredPaths[i])) = pLen
       ELSE FALSE

GoExt == <<"g", "o">>

Coffee == <<"c", "o", "f", "f", "e", "e">>

SrcDir == <<"s", "r", "c">>

SrcGen == <<"s", "r", "c", "/", "g", "e", "n">>

\* a.go, src/b.go, src/gen/c.go, src/d.svg, e.json, f.nock, g.xml, h.coffee
FileNames ==
    {<<"a", ".">> \o GoExt,
     SrcDir \o <<"/", "b", ".">> \o GoExt,
     SrcGen \o <<"/", "c", ".">> \o GoExt,
     SrcDir \o <<"/", "d", ".">> \o Svg,
     <<"e", ".">> \o Json,
     <<"f", ".">> \o Nock,
     <<"g", ".">> \o Xml,
     <<"h", ".">> \o Coffee}

\* a file created on the branch
NewName == <<"n", ".">> \o GoExt

\* object.Change: the name on master (From) and on the branch (To); a
\* created file has no From name, a deleted one no To name, and a rename is
\* the deletion of the old name and the creation of the new one
Modified(n) == [From |-> n, To |-> n]

Created(n) == [From |-> <<>>, To |-> n]

Deleted(n) == [From |-> n, To |-> <<>>]

Renamed(n, m) == [From |-> n, To |-> m]

ChangeSet ==
    {Modified(n) : n \in FileNames}
    \cup {Created(NewName), Deleted(<<"a", ".">> \o GoExt),
          Renamed(SrcDir \o <<"/", "b", ".">> \o GoExt, NewName)}

ChangeLists == UNION {[1..l -> ChangeSet] : l \in 0..MaxChanges}

\* the filters of a ContributionCounter
FileOptions ==
    [OnlyExtensions : {<<>>, <<GoExt>>},
     IgnoredExtensions : {<<>>, <<Coffee>>},
     OnlyPaths : {<<>>, <<SrcDir>>},
     IgnoredPaths : {<<>>, <<SrcGen>>}]

\* calls of FindFiles: the changes DiffTree reports, or the lookup or diff
\* that fails, and the filters
FindFilesCalls ==
    [fn : {"FindFiles"}, changes : ChangeLists, diffFails : BOOLEAN,
     opts : FileOptions]

InitFiles ==
    /\ variant = "files"
    /\ BlameIdle
    /\ TopNIdle
    /\ ShellIdle
    /\ call \in FindFilesCalls
    /\ ret = [kind |-> "lookups", idx |-> 0, set |-> {}]

\* the seven lookups up to object.DiffTree: on an error maybeRunMany skips
\* the loop over the changes
FilesDiff ==
    /\ call.fn = "FindFiles"
    /\ ret.kind = "lookups"
    /\ ret' = [ret EXCEPT !.kind = IF call.diffFails THEN "collect"
                                   ELSE "loop"]
    /\ UNCHANGED <<call, variant, blameVars, topnVars, shellVars>>

\* a choice of the name the file has on the branch
ChangeNameTo(ch) == ch.To

\* n := ch.From.Name
ChangeName(ch) == ch.From

\* one iteration of the loop over the changes
FilesIter ==
    /\ call.fn = "FindFiles"
    /\ ret.kind = "loop"
    /\ ret.idx < Len(call.changes)
    /\ LET n == ChangeName(call.changes[ret.idx + 1]) IN
       ret' = [ret EXCEPT
                 !.idx = ret.idx + 1,
                 !.set = IF Len(n) > 0 /\ considerExt(n, call.opts)
                            /\ considerPath(n, call.opts)
                         THEN ret.set \cup {n} ELSE ret.set]
    /\ UNCHANGED <<call, variant, blameVars, topnVars, shellVars>>

FilesLoopEnd ==
    /\ call.fn = "FindFiles"
    /\ ret.kind = "loop"
    /\ ret.idx = Len(call.changes)
    /\ ret' = [ret EXCEPT !.kind = "collect"]
    /\ UNCHANGED <<call, variant, blameVars, topnVars, shellVars>>

\* for path := range set { paths = append(paths, path) }; return paths, rg.err
FilesReturn ==
    /\ call.fn = "FindFiles"
    /\ ret.kind = "collect"
    /\ \E o \in [1..Cardinality(ret.set) -> ret.set] :
          /\ \A i, j \in DOMAIN o : i # j => o[i] # o[j]
          /\ ret' = [kind |-> "returned", paths |-> o,
                     err |-> IF call.diffFails THEN "diff" ELSE "nil"]
    /\ UNCHANGED <<call, variant, blameVars, topnVars, shellVars>>

NextFiles == FilesDiff \/ FilesIter \/ FilesLoopEnd \/ FilesReturn

SpecFiles == InitFiles /\ [][NextFiles]_vars

\* the paths FindFiles returned, as a set
ReturnedPaths == {ret.paths[i] : i \in DOMAIN ret.paths}

\* the changes of the call, as a set
CallChanges == {call.changes[i] : i \in DOMAIN call.changes}

IgnoredExts(opts) ==
    {Svg, Json, Nock, Xml}
    \cup {opts.IgnoredExtensions[i] : i \in DOMAIN opts.IgnoredExtensions}

\* the paths FindFiles has kept or returned
KeptPaths ==
    IF ret.kind = "returned" THEN ReturnedPaths ELSE ret.set

\* the master names of the changes the loop of FindFiles has been through
SeenNames ==
    IF ret.kind = "returned"
    THEN (IF call.diffFails THEN {} ELSE {ch.From : ch \in CallChanges})
    ELSE {call.changes[i].From : i \in 1..ret.idx}

\* C24: with no only-extension list, considerExt rejects every path that
\* ends in svg, json, nock or xml, with and without extra ignored extensions,
\* and every path that ends in an extra ignored extension; FindFiles keeps
\* no such path.
C24_DefaultExtensionsIgnored ==
    (variant = "files" /\ call.opts.OnlyExtensions = <<>>) =>
        \A n \in SeenNames :
            (\E ext \in IgnoredExts(call.opts) : HasSuffix(n, ext)) =>
                /\ ~considerExt(n, call.opts)
                /\ n \notin KeptPaths

\* coffee is ignored in addition to the defaults: of the changed e.json,
\* h.coffee nothing is returned
C24_Witness ==
    /\ variant = "files"
    /\ ret.kind = "returned"
    /\ ret.err = "nil"
    /\ call.opts.OnlyExtensions = <<>>
    /\ call.opts.IgnoredExtensions = <<Coffee>>
    /\ call.changes = <<Modified(<<"e", ".">> \o Json),
                        Modified(<<"h", ".">> \o Coffee)>>
    /\ ret.paths = <<>>

\* C25: considerPath returns false for every path under a configured
\* ignore-path prefix, whatever the only-path option is, and FindFiles keeps
\* no such path.
C25_IgnoredPathsRejected ==
    variant = "files" =>
        \A n \in SeenNames :
            (\E i \in DOMAIN call.opts.IgnoredPaths :
                 HasPrefix(n, call.opts.IgnoredPaths[i])) =>
                /\ ~considerPath(n, call.opts)
                /\ n \notin KeptPaths

(***************************************************************************)
(* The mailmap: BuildMailmap, readMailmap, readMailmapFromSource and       *)
(* parseMailmapLine.  A line is the sequence of its characters, and so is  *)
(* every name and email; the mailmap is a function from keys to values.    *)
(***************************************************************************)
Lt == "<"
Gt == ">"
Sp == " "
Hash == "#"

\* bytes.IndexRune(s, c): the 0-based index of the first c in s, -1 if none
RECURSIVE IndexRune(_, _)
IndexRune(s, c) ==
    IF s = <<>> THEN -1
    ELSE IF Head(s) = c THEN 0
    ELSE LET r == IndexRune(Tail(s), c) IN IF r < 0 THEN -1 ELSE r + 1

\* s[lo:hi] for 0 <= lo <= hi <= len(s)
Slice(s, lo, hi) == SubSeq(s, lo + 1, hi)

RECURSIVE TrimLeft(_)
TrimLeft(s) == IF s # <<>> /\ Head(s) = Sp THEN TrimLeft(Tail(s)) ELSE s

RECURSIVE TrimRight(_)
TrimRight(s) ==
    IF s # <<>> /\ s[Len(s)] = Sp THEN TrimRight(SubSeq(s, 1, Len(s) - 1))
    ELSE s

\* bytes.TrimSpace
TrimSpace(s) == TrimRight(TrimLeft(s))

\* parseMailmapLine(line, offset): the named results name, email and right
\* at the return the code takes; the slice expression
\* line[offset+left+1 : offset+right] panics when its low index is above
\* its high index, that is when the first '>' comes before the first '<'
parseMailmapLine(line, offset) ==
    LET rest  == Slice(line, offset, Len(line))
        left  == IndexRune(rest, Lt)
        right == IndexRune(rest, Gt)
    IN  IF left < 0
        THEN [panic |-> FALSE, name |-> <<>>, email |-> <<>>, right |-> 0]
        ELSE IF right < 0
        THEN [panic |-> FALSE, name |-> <<>>, email |-> <<>>,
              right |-> right]
        ELSE IF offset + left + 1 > offset + right
        THEN [panic |-> TRUE,
              name  |-> TrimSpace(Slice(line, offset, offset + left)),
              email |-> <<>>, right |-> right]
        ELSE [panic |-> FALSE,
              name  |-> TrimSpace(Slice(line, offset, offset + left)),
              email |-> TrimSpace(Slice(line, offset + left + 1,
                                        offset + right)),
              right |-> right + offset + 1]

\* make(mailmap)
EmptyMailmap == [k \in {} |-> k]

\* an assignment that keeps the value a key already has
PutIfAbsent(mm, k, v) == mm @@ (k :> v)

\* mm[k] = v
Put(mm, k, v) == (k :> v) @@ mm

\* a loop body that records the canonical identity only
readMailmapLineNoAlias(mm, line) ==
    IF Len(line) = 0 \/ line[1] = Hash THEN [panic |-> FALSE, mm |-> mm]
    ELSE
      LET p1 == parseMailmapLine(line, 0)
          m1 == IF Len(p1.name) > 0 THEN Put(mm, p1.name, p1.name) ELSE mm
          m2 == IF Len(p1.email) > 0 THEN Put(m1, p1.email, p1.email)
                ELSE m1
      IN  [panic |-> p1.panic, mm |-> IF p1.panic THEN mm ELSE m2]

\* the body of the scanner loop of readMailmapFromSource for one line
readMailmapLine(mm, line) ==
    IF Len(line) = 0 \/ line[1] = Hash THEN [panic |-> FALSE, mm |-> mm]
    ELSE
      LET p1 == parseMailmapLine(line, 0)
          m1 == IF Len(p1.name) > 0 THEN Put(mm, p1.name, p1.name) ELSE mm
          m2 == IF Len(p1.email) > 0 THEN Put(m1, p1.email, p1.email)
                ELSE m1
      IN  IF p1.panic THEN [panic |-> TRUE, mm |-> mm]
          ELSE IF p1.right > 0 THEN
            LET p2 == parseMailmapLine(line, p1.right)
                m3 == IF Len(p1.name) > 0
                      THEN IF Len(p2.name) > 0
                           THEN Put(m2, p2.name, p1.name)
                           ELSE Put(m2, p1.name, p1.name)
                      ELSE m2
                m4 == IF Len(p1.email) > 0
                      THEN IF Len(p2.email) > 0
                           THEN Put(m3, p2.email, p1.email)
                           ELSE Put(m3, p1.email, p1.email)
                      ELSE m3
            IN  IF p2.panic THEN [panic |-> TRUE, mm |-> m2]
                ELSE [panic |-> FALSE, mm |-> m4]
          ELSE [panic |-> FALSE, mm |-> m2]

\* readMailmapFromSource(mm, src) over the lines the scanner yields
RECURSIVE readMailmapFromSource(_, _)
readMailmapFromSource(mm, lines) ==
    IF lines = <<>> THEN [panic |-> FALSE, mm |-> mm]
    ELSE LET r == readMailmapLine(mm, Head(lines)) IN
         IF r.panic THEN r ELSE readMailmapFromSource(r.mm, Tail(lines))

\* the names and emails the mailmaps of the model are written with
NameA == <<"A">>
NameB == <<"B">>
MailA == <<"a">>
MailB == <<"b">>
MailC == <<"c">>
CanonNames == {NameA, NameB}
AliasNames == {<<>>, NameA, NameB}
Mails == {MailA, MailB}

\* the line 'Name <email>'
SimpleLine(cn, ce) == cn \o <<Sp, Lt>> \o ce \o <<Gt>>

\* the line 'CanonName <canon@mail> [AliasName] <alias@mail>'
EntryLine(cn, ce, an, ae) ==
    SimpleLine(cn, ce) \o <<Sp>> \o an \o <<Sp, Lt>> \o ae \o <<Gt>>

CommentLine == <<Hash>> \o EntryLine(NameA, MailA, NameB, MailB)
EmptyLine == <<>>
SpacesLine == <<Sp, Sp>>
NoLeftLine == NameA
NoRightLine == NameA \o <<Sp, Lt>> \o MailA
RightFirstLine == NameA \o <<Gt, Sp, Lt>> \o MailA \o <<Gt>>
AliasRightFirstLine ==
    SimpleLine(NameA, MailA) \o <<Sp>> \o NameB \o <<Gt, Sp, Lt>> \o MailB

\* the lines a mailmap of the model is made of
MailmapLines ==
    {EntryLine(cn, ce, an, ae) :
        cn \in CanonNames, ce \in Mails, an \in AliasNames, ae \in Mails}
    \cup {SimpleLine(cn, ce) : cn \in CanonNames, ce \in Mails}
    \cup {EntryLine(<<>>, MailA, <<>>, MailB),
          EntryLine(<<>>, MailB, <<>>, MailC), SimpleLine(<<>>, MailB),
          CommentLine, EmptyLine, SpacesLine, NoLeftLine, NoRightLine,
          RightFirstLine, AliasRightFirstLine}

\* the sequences over S of length up to n
SeqUpTo(S, n) == UNION {[1..k -> S] : k \in 0..n}

\* readMailmapFromSource(mm, src) on an empty mailmap, as the test calls it:
\* the lines the scanner yields and whether it ends with an error
SourceCalls ==
    {[fn |-> "readMailmapFromSource",
      paths |-> <<[opens |-> TRUE, lines |-> ls, scanErr |-> e]>>,
      home |-> <<>>] :
        ls \in SeqUpTo(MailmapLines, MaxLines), e \in BOOLEAN}

\* the lines of the files BuildMailmap reads
FileLines ==
    {EntryLine(NameA, MailA, <<>>, MailB), SimpleLine(NameB, MailB),
     RightFirstLine}

\* a path of BuildMailmap: whether os.Open succeeds, and what the file holds
MailmapFiles ==
    {[opens |-> FALSE, lines |-> <<>>, scanErr |-> FALSE]}
    \cup {[opens |-> TRUE, lines |-> ls, scanErr |-> FALSE] :
              ls \in SeqUpTo(FileLines, MaxLines)}

\* r.BuildMailmap(paths...): the paths given, and the mailmap of the home
\* directory guessUserMailmap finds when none is given
BuildCalls ==
    {[fn |-> "BuildMailmap", paths |-> ps, home |-> <<>>] :
        ps \in SeqUpTo(MailmapFiles, MaxSources)}
    \cup {[fn |-> "BuildMailmap", paths |-> <<>>, home |-> <<f>>] :
              f \in MailmapFiles}

\* the paths readMailmap is called with
MailmapPaths(c) == IF Len(c.paths) = 0 THEN c.home ELSE c.paths

MmStart(open) ==
    [kind |-> "reading", path |-> 1, open |-> open, line |-> 1,
     mm |-> EmptyMailmap]

InitSource ==
    /\ variant = "source"
    /\ BlameIdle
    /\ TopNIdle
    /\ ShellIdle
    /\ call \in SourceCalls
    /\ ret = MmStart(TRUE)

InitMailmap ==
    /\ variant = "mailmap"
    /\ BlameIdle
    /\ TopNIdle
    /\ ShellIdle
    /\ call \in BuildCalls
    /\ ret = MmStart(FALSE)

\* os.Open(p): a file that does not open is skipped
MmOpen ==
    /\ call.fn = "BuildMailmap"
    /\ ret.kind = "reading"
    /\ ~ret.open
    /\ ret.path <= Len(MailmapPaths(call))
    /\ ret' = IF MailmapPaths(call)[ret.path].opens
              THEN [ret EXCEPT !.open = TRUE, !.line = 1]
              ELSE [ret EXCEPT !.path = ret.path + 1]
    /\ UNCHANGED <<call, variant, blameVars, topnVars, shellVars>>

\* one line of the scanner loop; a panic ends the program
MmScan ==
    /\ call.fn \in {"BuildMailmap", "readMailmapFromSource"}
    /\ ret.kind = "reading"
    /\ ret.open
    /\ ret.line <= Len(MailmapPaths(call)[ret.path].lines)
    /\ LET r == readMailmapLine(ret.mm,
                    MailmapPaths(call)[ret.path].lines[ret.line])
       IN  ret' = IF r.panic THEN [kind |-> "panic"]
                  ELSE [ret EXCEPT !.line = ret.line + 1, !.mm = r.mm]
    /\ UNCHANGED <<call, variant, blameVars, topnVars, shellVars>>

\* the scanner is done: readMailmapFromSource returns scanner.Err()
SourceReturn ==
    /\ call.fn = "readMailmapFromSource"
    /\ ret.kind = "reading"
    /\ ret.open
    /\ ret.line > Len(MailmapPaths(call)[ret.path].lines)
    /\ ret' = [kind |-> "returned", mm |-> ret.mm,
               err |-> IF MailmapPaths(call)[ret.path].scanErr
                       THEN "ErrTooLong" ELSE "nil"]
    /\ UNCHANGED <<call, variant, blameVars, topnVars, shellVars>>

\* the scanner is done: readMailmap drops the error readMailmapFromSource
\* returns, closes the file and goes on to the next path
MmClose ==
    /\ call.fn = "BuildMailmap"
    /\ ret.kind = "reading"
    /\ ret.open
    /\ ret.line > Len(MailmapPaths(call)[ret.path].lines)
    /\ ret' = [ret EXCEPT !.open = FALSE, !.path = ret.path + 1]
    /\ UNCHANGED <<call, variant, blameVars, topnVars, shellVars>>

\* readMailmap returns mm, nil and BuildMailmap stores it in r.Mailmap
MmReturn ==
    /\ call.fn = "BuildMailmap"
    /\ ret.kind = "reading"
    /\ ~ret.open
    /\ ret.path > Len(MailmapPaths(call))
    /\ ret' = [kind |-> "returned", mm |-> ret.mm, err |-> "nil"]
    /\ Mailmap' = ret.mm
    /\ UNCHANGED <<call, variant, blameRestVars, topnVars, shellVars>>

NextSource == MmScan \/ SourceReturn

NextMailmap == MmOpen \/ MmScan \/ MmClose \/ MmReturn

SpecSource == InitSource /\ [][NextSource]_vars

SpecMailmap == InitMailmap /\ [][NextMailmap]_vars

\* the table a file yields when it is read alone
SourceTable(f) == readMailmapFromSource(EmptyMailmap, f.lines).mm

\* the paths of the call whose file opened
OpenedPaths ==
    {i \in 1..Len(MailmapPaths(call)) : MailmapPaths(call)[i].opens}

\* the paths after i whose file defines the key k
LaterDefining(i, k) ==
    {j \in OpenedPaths :
        j > i /\ k \in DOMAIN SourceTable(MailmapPaths(call)[j])}

\* C26: when BuildMailmap has read several sources in order, every key a
\* source defines is in the mailmap, with the value of the last source that
\* defines it: a later source replaces the entry of an earlier one, and a
\* key only earlier sources define keeps its mapping.
C26_LaterSourceOverrides ==
    (variant = "mailmap" /\ ret.kind = "returned") =>
        /\ Mailmap = ret.mm
        /\ \A i \in OpenedPaths :
             \A k \in DOMAIN SourceTable(MailmapPaths(call)[i]) :
                /\ k \in DOMAIN Mailmap
                /\ LaterDefining(i, k) = {} =>
                      Mailmap[k] = SourceTable(MailmapPaths(call)[i])[k]

\* two sources were read: the second gave b another value than the first,
\* and only the first defines A
C26_Witness ==
    /\ variant = "mailmap" /\ ret.kind = "returned"
    /\ Len(call.paths) = 2
    /\ OpenedPaths = {1, 2}
    /\ MailB \in DOMAIN SourceTable(call.paths[1])
    /\ MailB \in DOMAIN SourceTable(call.paths[2])
    /\ SourceTable(call.paths[1])[MailB] # SourceTable(call.paths[2])[MailB]
    /\ Mailmap[MailB] = SourceTable(call.paths[2])[MailB]
    /\ NameA \notin DOMAIN SourceTable(call.paths[2])
    /\ Mailmap[NameA] = NameA

SourceLines == call.paths[1].lines

\* the entries that stand for a line of the form
\* 'CanonName <canon@mail> [AliasName] <alias@mail>' or 'CanonName <mail>'
Prescribed(line) ==
    UNION
      ({ {<<ae, ce>>, <<cn, cn>>, <<ce, ce>>}
           \cup (IF an = <<>> THEN {} ELSE {<<an, cn>>}) :
         <<cn, ce, an, ae>> \in
           {t \in CanonNames \X Mails \X AliasNames \X Mails :
               line = EntryLine(t[1], t[2], t[3], t[4])} }
       \cup
       { {<<cn, cn>>, <<ce, ce>>} :
         <<cn, ce>> \in
           {t \in CanonNames \X Mails : line = SimpleLine(t[1], t[2])} })

\* a comment line or a blank line
CommentOrBlank(line) == line = <<>> \/ line[1] = Hash

NotCommentOrBlank(line) == ~CommentOrBlank(line)

\* the table is the one the lines without the comments and blanks yield
CommentsAddNothing ==
    ret.mm = readMailmapFromSource(EmptyMailmap,
                 SelectSeq(SourceLines, NotCommentOrBlank)).mm

\* the table one line yields when it is read alone
LineTable(line) == readMailmapLine(EmptyMailmap, line).mm

reviewerKeyLinked(sig, mm) ==
    LET found == sig.Name \in DOMAIN mm
        name  == IF found THEN mm[sig.Name] ELSE sig.Name
        email == IF found /\ sig.Email \in DOMAIN mm THEN mm[sig.Email]
                 ELSE sig.Email
    IN  name \o <<Sp, Lt>> \o email \o <<Gt>>

\* reviewerKey(sig, mm) of reviewers.go: fmt.Sprintf("%s <%s>", name, email)
reviewerKeySignature(sig, mm) ==
    LET name  == IF sig.Name \in DOMAIN mm THEN mm[sig.Name] ELSE sig.Name
        email == IF sig.Email \in DOMAIN mm THEN mm[sig.Email]
                 ELSE sig.Email
    IN  name \o <<Sp, Lt>> \o email \o <<Gt>>

\* the keys and values of the mailmaps the lookups are tried on
KeyTokens == CanonNames \cup Mails

KeyMailmaps == UNION {[S -> KeyTokens] : S \in SUBSET KeyTokens}

KeyCalls ==
    [fn : {"reviewerKey"}, version : {"counter", "reviewer"},
     Name : CanonNames, Email : Mails, mm : KeyMailmaps]

InitKey ==
    /\ variant = "key"
    /\ BlameIdle
    /\ TopNIdle
    /\ ShellIdle
    /\ call \in KeyCalls
    /\ ret = [kind |-> "none"]

\* the call: the key it returns, and the mailmap as the call leaves it (a
\* map read assigns nothing)
KeyLookup ==
    /\ call.fn = "reviewerKey"
    /\ ret.kind = "none"
    /\ ret' = [kind |-> "returned",
               key  |-> IF call.version = "counter"
                        THEN reviewerKey(call.Email, call.mm)
                        ELSE reviewerKeySignature(
                                 [Name |-> call.Name, Email |-> call.Email],
                                 call.mm),
               mm   |-> call.mm]
    /\ UNCHANGED <<call, variant, blameVars, topnVars, shellVars>>

NextKey == KeyLookup

SpecKey == InitKey /\ [][NextKey]_vars

\* the name and the email a key "name <email>" is made of
KeyName(k) == Slice(k, 0, IndexRune(k, Lt) - 1)
KeyEmail(k) == Slice(k, IndexRune(k, Lt) + 1, Len(k) - 1)

\* the name of the returned identity, where the key has one
ReturnedName == KeyName(ret.key)

\* the email of the returned identity
ReturnedEmail ==
    IF call.version = "counter" THEN ret.key ELSE KeyEmail(ret.key)

\* C29: reviewerKey always returns, and leaves the mailmap as it was; the
\* email it returns is the mailmap's entry for the raw email, or the raw
\* email when there is none, whatever the name is; the name (where the key
\* has one) is the mailmap's entry for the raw name, or the raw name when
\* there is none, whatever the email is.
C29_LookupsPassThrough ==
    (variant = "key" /\ ret.kind = "returned") =>
        /\ ret.mm = call.mm
        /\ call.Email \notin DOMAIN call.mm => ReturnedEmail = call.Email
        /\ call.Email \in DOMAIN call.mm =>
              ReturnedEmail = call.mm[call.Email]
        /\ call.version = "reviewer" =>
              /\ call.Name \notin DOMAIN call.mm =>
                    ReturnedName = call.Name
              /\ call.Name \in DOMAIN call.mm =>
                    ReturnedName = call.mm[call.Name]

\* a signature whose email has an entry and whose name has none: the email
\* is replaced, the name passes through
C29_Witness ==
    /\ variant = "key" /\ ret.kind = "returned"
    /\ call.version = "reviewer"
    /\ call.Name \notin DOMAIN call.mm
    /\ call.Email \in DOMAIN call.mm
    /\ call.mm[call.Email] # call.Email
    /\ ret.key = call.Name \o <<Sp, Lt>> \o call.mm[call.Email] \o <<Gt>>

(***************************************************************************)
(* mergeStats of the shell variant.                                        *)
(***************************************************************************)
MergeReviewers == {"a", "b"}
MergeCounts == {0, 1, 2}

\* Stat{Reviewer, Count}
MergeStatSet == [Reviewer : MergeReviewers, Count : MergeCounts]

\* the entries of f from position k on that the cut g puts in group i
RECURSIVE PickGroup(_, _, _, _)
PickGroup(f, g, i, k) ==
    IF k > Len(f) THEN <<>>
    ELSE (IF g[k] = i THEN <<f[k]>> ELSE <<>>) \o PickGroup(f, g, i, k + 1)

\* []Stats: up to MaxGroups groups holding up to MaxEntries entries in all
StatGroups ==
    {[i \in 1..n |-> PickGroup(f, g, i, 1)] :
        <<n, f, g>> \in
          {t \in (0..MaxGroups) \X SeqUpTo(MergeStatSet, MaxEntries)
                   \X SeqUpTo(1..MaxGroups, MaxEntries) :
              /\ Len(t[3]) = Len(t[2])
              /\ \A k \in DOMAIN t[3] : t[3][k] <= t[1]
              /\ \A k \in DOMAIN t[3] : k > 1 => t[3][k - 1] <= t[3][k]}}

MergeCalls == [fn : {"mergeStats"}, stats : StatGroups]

InitMerge ==
    /\ variant = "merge"
    /\ BlameIdle
    /\ TopNIdle
    /\ ShellIdle
    /\ call \in MergeCalls
    /\ ret = [kind |-> "merging", group |-> 1, idx |-> 1,
              reviewers |-> [r \in {} |-> 0]]

\* one iteration of the loop over a group:
\* reviewers[stat.Reviewer] += stat.Count
MergeIter ==
    /\ call.fn = "mergeStats"
    /\ ret.kind = "merging"
    /\ ret.group <= Len(call.stats)
    /\ ret.idx <= Len(call.stats[ret.group])
    /\ ret' = [ret EXCEPT
                 !.idx = ret.idx + 1,
                 !.reviewers = MergeAdd(ret.reviewers,
                                        call.stats[ret.group][ret.idx])]
    /\ UNCHANGED <<call, variant, blameVars, topnVars, shellVars>>

\* the group is done: on to the next one
MergeNextGroup ==
    /\ call.fn = "mergeStats"
    /\ ret.kind = "merging"
    /\ ret.group <= Len(call.stats)
    /\ ret.idx > Len(call.stats[ret.group])
    /\ ret' = [ret EXCEPT !.group = ret.group + 1, !.idx = 1]
    /\ UNCHANGED <<call, variant, blameVars, topnVars, shellVars>>

\* for reviewer, count := range reviewers { final = append(final, ...) }:
\* the Stats in the order the map is ranged over
MergeReturn ==
    /\ call.fn = "mergeStats"
    /\ ret.kind = "merging"
    /\ ret.group > Len(call.stats)
    /\ \E o \in [1..Cardinality(DOMAIN ret.reviewers) ->
                    DOMAIN ret.reviewers] :
          /\ \A i, j \in DOMAIN o : i # j => o[i] # o[j]
          /\ ret' = [kind |-> "returned",
                     final |-> [i \in DOMAIN o |->
                                  [Reviewer |-> o[i],
                                   Count |-> ret.reviewers[o[i]]]]]
    /\ UNCHANGED <<call, variant, blameVars, topnVars, shellVars>>

NextMerge == MergeIter \/ MergeNextGroup \/ MergeReturn

SpecMerge == InitMerge /\ [][NextMerge]_vars

\* the positions <<group, index>> of the entries of the input
MergePositions ==
    {<<g, k>> : g \in 1..MaxGroups, k \in 1..MaxEntries} \cap
    {p \in (1..MaxGroups) \X (1..MaxEntries) :
        p[1] <= Len(call.stats) /\ p[2] <= Len(call.stats[p[1]])}

\* the reviewers that appear in some group
MergeSeen == {call.stats[p[1]][p[2]].Reviewer : p \in MergePositions}

\* the sum of the counts at the positions P
RECURSIVE SumAt(_)
SumAt(P) ==
    IF P = {} THEN 0
    ELSE LET p == CHOOSE q \in P : TRUE
         IN  call.stats[p[1]][p[2]].Count + SumAt(P \ {p})

\* C30: mergeStats returns one Stat for each reviewer that appears in some
\* group and no other, and its Count is the sum of the reviewer's counts
\* over all the groups, a sum over the set of the entries that no order of
\* the groups or of their entries changes.
C30_OneStatPerReviewerWithSum ==
    (variant = "merge" /\ ret.kind = "returned") =>
        /\ {ret.final[i].Reviewer : i \in DOMAIN ret.final} = MergeSeen
        /\ Len(ret.final) = Cardinality(MergeSeen)
        /\ \A i \in DOMAIN ret.final :
              ret.final[i].Count =
                 SumAt({p \in MergePositions :
                          call.stats[p[1]][p[2]].Reviewer =
                             ret.final[i].Reviewer})

\* a reviewer of two groups got the sum of both counts, next to a reviewer
\* of one group
C30_Witness ==
    /\ variant = "merge" /\ ret.kind = "returned"
    /\ Len(call.stats) = 2
    /\ \E i, j \in DOMAIN ret.final :
          /\ ret.final[i].Reviewer = "a" /\ ret.final[i].Count = 3
          /\ ret.final[j].Reviewer = "b"
    /\ \E k \in DOMAIN call.stats[1] :
          call.stats[1][k] = [Reviewer |-> "a", Count |-> 1]
    /\ \E k \in DOMAIN call.stats[2] :
          call.stats[2][k] = [Reviewer |-> "a", Count |-> 2]

(***************************************************************************)
(* mergeChans: one output goroutine per input channel forwards to out, and *)
(* a closing goroutine closes out after wg.Wait().  The producers of the   *)
(* inputs and the receiver of out are the callers' goroutines: a producer  *)
(* sends its values in order and then closes its channel.  The k-th value  *)
(* of input i is <<i, k>>.                                                 *)
(***************************************************************************)
\* the number of values each input's producer sends before it closes
ChansCalls == [fn : {"mergeChans"}, lens : SeqUpTo(0..MaxVals, MaxChans)]

Chans == 1..Len(call.lens)

\* mergeChans has returned out: wg.Add(len(cs)) has run, the goroutines are
\* started and every output stands at its range over c
ChansStart(c) ==
    [kind |-> "running",
     sent |-> [i \in 1..Len(c.lens) |-> 0],
     inClosed |-> [i \in 1..Len(c.lens) |-> FALSE],
     fwd |-> [i \in 1..Len(c.lens) |-> "range"],
     wg |-> Len(c.lens),
     closed |-> FALSE,
     recvd |-> <<>>]

InitChans ==
    /\ variant = "chans"
    /\ BlameIdle
    /\ TopNIdle
    /\ ShellIdle
    /\ call \in ChansCalls
    /\ ret = ChansStart(call)

\* the producer of input i sends its next value, which meets the receive of
\* for n := range c (the channels are unbuffered)
ChanSend(i) ==
    /\ ret.kind = "running"
    /\ ret.fwd[i] = "range"
    /\ ~ret.inClosed[i]
    /\ ret.sent[i] < call.lens[i]
    /\ ret' = [ret EXCEPT !.sent[i] = ret.sent[i] + 1, !.fwd[i] = "out"]
    /\ UNCHANGED <<call, variant, blameVars, topnVars, shellVars>>

\* the producer of input i has sent its values and closes the channel
ChanClose(i) ==
    /\ ret.kind = "running"
    /\ ~ret.inClosed[i]
    /\ ret.sent[i] = call.lens[i]
    /\ ret' = [ret EXCEPT !.inClosed[i] = TRUE]
    /\ UNCHANGED <<call, variant, blameVars, topnVars, shellVars>>

\* out <- n of output i meets the receive of the caller's range over out; a
\* send on out once it is closed panics
ChanForward(i) ==
    /\ ret.kind = "running"
    /\ ret.fwd[i] = "out"
    /\ ret' = IF ret.closed THEN [kind |-> "panic"]
              ELSE [ret EXCEPT
                      !.recvd = Append(ret.recvd, <<i, ret.sent[i]>>),
                      !.fwd[i] = "range"]
    /\ UNCHANGED <<call, variant, blameVars, topnVars, shellVars>>

\* the range over c ends, c being closed: wg.Done()
ChanDone(i) ==
    /\ ret.kind = "running"
    /\ ret.fwd[i] = "range"
    /\ ret.inClosed[i]
    /\ ret' = [ret EXCEPT !.fwd[i] = "exited", !.wg = ret.wg - 1]
    /\ UNCHANGED <<call, variant, blameVars, topnVars, shellVars>>

\* a wait that returns once every input is closed
ChansWaitInputsClosed(st) == \A i \in DOMAIN st.inClosed : st.inClosed[i]

\* wg.Wait() returns
ChansWaitReturns(st) == st.wg = 0

\* wg.Wait() returned: close(out)
ChanCloseOut ==
    /\ ret.kind = "running"
    /\ ~ret.closed
    /\ ChansWaitReturns(ret)
    /\ ret' = [ret EXCEPT !.closed = TRUE]
    /\ UNCHANGED <<call, variant, blameVars, topnVars, shellVars>>

\* the caller's range over out ends, out being closed
ChanRangeEnd ==
    /\ ret.kind = "running"
    /\ ret.closed
    /\ \A i \in Chans : ret.fwd[i] # "out"
    /\ ret' = [ret EXCEPT !.kind = "returned"]
    /\ UNCHANGED <<call, variant, blameVars, topnVars, shellVars>>

NextChans ==
    \/ \E i \in Chans :
          \/ ChanSend(i)
          \/ ChanClose(i)
          \/ ChanForward(i)
          \/ ChanDone(i)
    \/ ChanCloseOut
    \/ ChanRangeEnd

SpecChans == InitChans /\ [][NextChans]_vars

\* every goroutine that can take a step takes one in the end: the producers
\* send and close, the outputs forward, the caller receives from out
SpecChansFair == SpecChans /\ WF_vars(NextChans)

\* the values sent so far on the inputs
ChansSent == {<<i, k>> : i \in Chans, k \in 1..MaxVals} \cap
             {v \in (1..MaxChans) \X (1..MaxVals) :
                 v[1] \in Chans /\ v[2] <= ret.sent[v[1]]}

\* the value an output holds between its receive and its send on out
ChansHeld == {<<i, ret.sent[i]>> : i \in {j \in Chans : ret.fwd[j] = "out"}}

\* C37: mergeChans is a lossless fan-in.  Every value delivered on out was
\* sent on an input and is delivered once; every value sent is delivered or
\* held by its output goroutine, about to be; the values of one input are
\* delivered in the order they were sent; out is closed only after every
\* input is closed and everything sent on it is delivered, and no goroutine
\* sends on out after that; and with every goroutine taking its steps (the
\* inputs closed in the end, out received from) out is closed in the end.
C37_LosslessFanIn ==
    /\ [](variant = "chans" /\ ret.kind # "panic" =>
            /\ \A a, b \in DOMAIN ret.recvd :
                  a < b =>
                     /\ ret.recvd[a] # ret.recvd[b]
                     /\ ret.recvd[a][1] = ret.recvd[b][1] =>
                           ret.recvd[a][2] < ret.recvd[b][2]
            /\ {ret.recvd[a] : a \in DOMAIN ret.recvd} \cup ChansHeld
                  = ChansSent
            /\ ret.closed =>
                  /\ \A i \in Chans : ret.inClosed[i]
                  /\ ChansHeld = {}
                  /\ Len(ret.recvd) = Cardinality(ChansSent))
    /\ [](variant = "chans" => ret.kind # "panic")
    /\ <>(variant = "chans" => ret.kind = "returned" /\ ret.closed)

\* two inputs of two values each were merged, the values of the second input
\* arriving between those of the first, and out is closed
C37_Witness ==
    /\ variant = "chans" /\ ret.kind = "returned" /\ ret.closed
    /\ call.lens = <<2, 2>>
    /\ ret.recvd = <<<<1, 1>>, <<2, 1>>, <<2, 2>>, <<1, 2>>>>

(***************************************************************************)
(* Reviewer.BranchBehind of the shell-based variant, with commitTimeStamp  *)
(* and run.  A command's output is a string of bytes; a command that       *)
(* cannot be run, or exits with a failure, is the outcome "fail".          *)
(***************************************************************************)
Quote == 34
NewLine == 10

\* outputs of git show --format="%ct": the quoted timestamp on the first
\* line, then what git show prints after it
MaxDigits == 2

TimeStamps == {ts \in SeqUpTo({49, 50}, MaxDigits) : ts # <<>>}

GitShowOutputs ==
    {<<Quote>> \o ts \o <<Quote, NewLine>> \o rest :
        ts \in TimeStamps, rest \in {<<>>, <<100, NewLine>>}}

GitShowOutcomes == {[fails |-> TRUE, out |-> <<>>]}
                       \cup {[fails |-> FALSE, out |-> o] : o \in GitShowOutputs}

\* run(cmd): the combined output, or "" and the error of the command
run(outcome) ==
    IF outcome.fails THEN [out |-> <<>>, err |-> "exit"]
    ELSE [out |-> outcome.out, err |-> "nil"]

\* strings.Split(out, "\n")[0]
FirstLine(out) ==
    LET i == IndexRune(out, NewLine)
    IN  IF i < 0 THEN out ELSE Slice(out, 0, i)

\* strings.Trim(line, "\"")
RECURSIVE TrimQuotes(_)
TrimQuotes(s) ==
    IF s # <<>> /\ Head(s) = Quote THEN TrimQuotes(Tail(s))
    ELSE IF s # <<>> /\ s[Len(s)] = Quote
    THEN TrimQuotes(SubSeq(s, 1, Len(s) - 1))
    ELSE s

\* commitTimeStamp with the error of run handed on
commitTimeStampReportsError(outcome) ==
    LET r == run(outcome)
    IN  IF r.err # "nil" THEN [ts |-> <<>>, err |-> r.err]
        ELSE [ts |-> TrimQuotes(FirstLine(r.out)), err |-> "nil"]

\* commitTimeStamp(obj): on an error of run it returns "", nil
commitTimeStamp(outcome) ==
    LET r == run(outcome)
    IN  IF r.err # "nil" THEN [ts |-> <<>>, err |-> "nil"]
        ELSE [ts |-> TrimQuotes(FirstLine(r.out)), err |-> "nil"]

ShBehindCalls ==
    [fn : {"Reviewer.BranchBehind"}, master : GitShowOutcomes,
     HEAD : GitShowOutcomes]

InitShBehind ==
    /\ variant = "shbehind"
    /\ BlameIdle
    /\ TopNIdle
    /\ ShellIdle
    /\ call \in ShBehindCalls
    /\ ret = [kind |-> "none", master |-> <<>>, current |-> <<>>,
              behind |-> FALSE, err |-> "nil"]

\* master, err = commitTimeStamp("master"), and the return on an error
ShBehindMaster ==
    /\ call.fn = "Reviewer.BranchBehind"
    /\ ret.kind = "none"
    /\ LET r == commitTimeStamp(call.master)
       IN  ret' = [ret EXCEPT !.kind = IF r.err # "nil" THEN "returned"
                                       ELSE "master",
                              !.master = r.ts, !.err = r.err]
    /\ UNCHANGED <<call, variant, blameVars, topnVars, shellVars>>

\* current, err = commitTimeStamp("HEAD"), and the return on an error
ShBehindHead ==
    /\ call.fn = "Reviewer.BranchBehind"
    /\ ret.kind = "master"
    /\ LET r == commitTimeStamp(call.HEAD)
       IN  ret' = [ret EXCEPT !.kind = IF r.err # "nil" THEN "returned"
                                       ELSE "current",
                              !.current = r.ts, !.err = r.err]
    /\ UNCHANGED <<call, variant, blameVars, topnVars, shellVars>>

\* return current < master, nil
ShBehindReturn ==
    /\ call.fn = "Reviewer.BranchBehind"
    /\ ret.kind = "current"
    /\ ret' = [ret EXCEPT !.kind = "returned",
                          !.behind = StrLess(ret.current, ret.master),
                          !.err = "nil"]
    /\ UNCHANGED <<call, variant, blameVars, topnVars, shellVars>>

NextShBehind == ShBehindMaster \/ ShBehindHead \/ ShBehindReturn

SpecShBehind == InitShBehind /\ [][NextShBehind]_vars

\* C38: when git fails to give the commit timestamp of master or of HEAD,
\* Reviewer.BranchBehind returns a non-nil error, and it never compares an
\* empty timestamp to decide
C38_GitFailureIsAnError ==
    variant = "shbehind" /\ call.fn = "Reviewer.BranchBehind"
        /\ (call.master.fails \/ call.HEAD.fails) =>
            /\ ret.kind # "current"
            /\ ret.kind = "returned" => ret.err # "nil"

\* C39: after any sequence of parsed lines the mailmap is idempotent: the
\* value stored under a key resolves to itself, so that an alias and its
\* canonical identity reach the same key with the single lookup of
\* runAndReport
C39_CanonicalizationIdempotent ==
    variant = "source" /\ ret.kind \in {"reading", "returned"} =>
        \A k \in DOMAIN ret.mm :
            reviewerKey(ret.mm[k], ret.mm) = ret.mm[k]

====
